---- MODULE Spec2Model ----
(***************************************************************************)
(* Interrupt-bridged completion core of the embassy GD32 / Cortex-M HAL:   *)
(* the SysTick time driver (embassy-cortex-m/src/systick.rs), the RTC time *)
(* driver (embassy-gd32/src/timedriver_rtc.rs), the DMA completion future  *)
(* (embassy-gd32/src/dma.rs) and the buffered UART                         *)
(* (embassy-gd32/src/usart/buffered.rs).                                   *)
(*                                                                         *)
(* The four components share no state.  `unit` names the component a       *)
(* behaviour exercises; the others stay in their reset state.  A firmware  *)
(* image links exactly one time driver, so a behaviour of the clock        *)
(* specification runs either the SysTick or the RTC driver.                *)
(*                                                                         *)
(* Integer widths are scaled: a 16-bit half-word has HalfBits bits, a      *)
(* 32-bit word 2*HalfBits and a u64 4*HalfBits, so that counter overflow   *)
(* and word tearing are reachable by the model checker.                    *)
(***************************************************************************)
EXTENDS Integers, Sequences, FiniteSets, TLC

\* ------------------------------------------------------------------ bounds
HalfBits == 2          \* bits of a scaled 16-bit half-word
MaxTick == 4           \* clock ticks a behaviour takes after its initial state
MaxArm == 2            \* set_alarm calls the task makes in a behaviour
MaxCb == 2             \* set_alarm_callback calls the task makes in a behaviour
MaxStart == 2          \* DMA transfers the task starts in a behaviour
RingCap == 2           \* capacity of each UART ring buffer
MaxTx == 4             \* bytes the writing task gets accepted in a behaviour
MaxWake == 3           \* wakes issued to one task in a behaviour
MaxRx == 3             \* bytes the line delivers in a behaviour
MaxPclk == 24          \* clocks 1 .. MaxPclk are passed to calc_bauddiv
MaxBaud == 6           \* baud rates 1 .. MaxBaud are passed to calc_bauddiv
ExtiLines == 2         \* EXTI lines with a pin and a task waiting on it
MaxSpiPclk == 300      \* clocks 1 .. MaxSpiPclk are passed to compute_baud_rate
MaxSpiTarget == 2      \* targets 1 .. MaxSpiTarget are passed to it

\* ------------------------------------------------------------ scaled words
Half == 2 ^ HalfBits                 \* 2^16, scaled
Word == Half * Half                  \* 2^32, scaled
U64_MAX == Word * Word - 1           \* u64::MAX, scaled
Lo(x) == x % Word                    \* low 32-bit word of a u64
Hi(x) == x \div Word                 \* high 32-bit word of a u64
Join(h, l) == h * Word + l

NULL == "null"                       \* ptr::null()
\* The callbacks a consumer registers, each with its context pointer:
\* cb_plain only records that it ran; cb_rearm is a periodic timer, it calls
\* set_alarm(own handle, deadline that fired + ctx).
CallbackCtx == {<<"cb_plain", 1>>, <<"cb_rearm", 2>>}

VARIABLES
    unit,         \* "systick" | "rtc" | "dma" | "uart" | "waker" | "baud" |
                  \* "exti" | "spi": the component exercised
    bauddiv,      \* a call of calc_bauddiv: its arguments and its result
    spi,          \* a call of compute_baud_rate: its arguments and its result
    \* ---- EXTI, per line
    inten,        \* EXTI_INTEN: the line's interrupt-enable bit
    rten,         \* EXTI_RTEN: rising-edge trigger enabled
    ften,         \* EXTI_FTEN: falling-edge trigger enabled
    pd,           \* EXTI_PD: the line's pending flag
    level,        \* the level of the pin
    EXTI_WAKERS,  \* the line's AtomicWaker holds the waker of the waiting task
    efut,         \* the ExtiInputFuture of the line: none, fresh, pending, ready
    epc,          \* the position of the task inside a poll of that future
    rose,         \* a rising edge has occurred since the future was created
    \* ---- time drivers
    alarm_count,  \* DRIVER.alarm_count
    alarms,       \* DRIVER.alarms: slot -> [ts, callback, ctx]
    ts,           \* SystickDriver.ts
    ticks,        \* clock ticks taken so far in this behaviour
    tpc,          \* task: position inside the driver call it is executing
    tl,           \* task: locals of that call
    nArm, nCb,    \* calls made so far
    fault,        \* the handler called a null function pointer
    \* ---- observations used by the properties
    gh,           \* slot -> the arming in force and the callback invocations for it
    issued,       \* handles returned by allocate_alarm, in order
    lastAlloc,    \* result of the latest allocate_alarm: a handle, -1 = None, -2 = no call yet
    lastSet,      \* the latest set_alarm call that returned
    lastNow,      \* result of the latest now() call of the task
    \* ---- RTC hardware and driver state
    rtcTime,      \* ticks of the RTC clock since boot; CNTH:CNTL hold its low word
    ovif, alrmif, \* RTC_CTL flags: counter overflow, alarm match
    alrm,         \* RTC_ALRMH:RTC_ALRML
    rtcPend,      \* NVIC pending bit of the RTC interrupt
    period,       \* RtcState.period
    ipc,          \* RTC interrupt handler: position (idle when not running)
    il,           \* RTC interrupt handler: locals
    \* ---- DMA channel 0
    dsignal,      \* ChannelStateInner.signal
    dwaker,       \* ChannelStateInner.waker: the waker it holds, or NULL
    dIrqEn,       \* NVIC enable bit of the channel's interrupt
    chen, ftfie,  \* CH0CTL: channel enable, full-transfer-finish interrupt enable
    ftfif, errif, \* DMA_INTF: full transfer finished, transfer error
    xfer,         \* the transfer programmed last: none | running | done | error
    dpc,          \* task: position inside read_inner / write_inner / poll
    dl,           \* task: locals of the poll
    dfut,         \* the task's Transfer future: none | fresh | pending | ready |
                  \* dropped (before it resolved)
    dwoken,       \* the task has been woken since its last poll began
    nStart,       \* transfers started so far
    dRaised,      \* the hardware has raised FTFIF since the last start began
    lastPoll,     \* the latest poll that returned
    \* ---- buffered UART
    rx, tx,       \* the ring buffers: [buf, head, tail]
    rx_waker,     \* StateInner.rx_waker: the waker it holds, or NULL
    tx_waker,     \* StateInner.tx_waker
    rbne, tbe,    \* USART_STAT0: read buffer not empty, transmit buffer empty
    rdata,        \* the received byte in USART_DATA
    tbeie,        \* USART_CTL0.TBEIE (RBNEIE is set by new() and stays set)
    uMasked,      \* the task is inside PeripheralMutex::with
    upc,          \* task context: position inside the poll being executed
    ul,           \* task context: locals of that poll
    rop,          \* the reading task's operation: [st, len]
    wop,          \* the writing task's operation: [kind, st, len, need]
    rWoken,       \* the reading task has been woken since its last poll began
    wWoken,       \* the writing task has been woken since its last poll began
    rxIn,         \* bytes the line has delivered so far
    rxAcc,        \* bytes the handler has pushed into the RX buffer, in order
    rxRead,       \* bytes the reads have returned, in order
    dataLog,      \* bytes written to USART_DATA, in order
    lastIrq,      \* the TBE branch of the latest run of on_interrupt
    \* ---- a waker slot shared by several tasks
    wslot,        \* the waker the slot holds, or NULL
    wakes,        \* wakes[t]: how often task t's waker has been woken
    wregs,        \* wregs[t]: how often task t has registered its waker
    wlast         \* the latest operation on the slot

clockVars == <<alarm_count, alarms, ts, ticks, tpc, tl, nArm, nCb, fault,
               gh, issued, lastAlloc, lastSet, lastNow>>
rtcVars == <<rtcTime, ovif, alrmif, alrm, rtcPend, period, ipc, il>>
dmaVars == <<dsignal, dwaker, dIrqEn, chen, ftfie, ftfif, errif, xfer, dpc, dl,
             dfut, dwoken, nStart, dRaised, lastPoll>>
uartVars == <<rx, tx, rx_waker, tx_waker, rbne, tbe, rdata, tbeie, uMasked, upc,
              ul, rop, wop, rWoken, wWoken, rxIn, rxAcc, rxRead, dataLog,
              lastIrq>>
wakerVars == <<wslot, wakes, wregs, wlast>>
ioVars == <<dmaVars, uartVars, wakerVars>>
extiVars == <<inten, rten, ften, pd, level, EXTI_WAKERS, efut, epc, rose>>
vars == <<unit, bauddiv, spi, extiVars, clockVars, rtcVars, ioVars>>

\* ------------------------------------------------------------- alarm table
SYSTICK_ALARM_COUNT == 4
RTC_ALARM_COUNT == 3
\* the model's table has the slots of the larger driver; the RTC driver uses 3
MaxSlots == SYSTICK_ALARM_COUNT
Slots == 0 .. (MaxSlots - 1)

\* AlarmState::new()
AlarmStateNew == [ts |-> U64_MAX, callback |-> NULL, ctx |-> 0]


TaskIdle == [op |-> "none", h |-> 0, t |-> 0, now |-> 0, first |-> "none",
             ovf |-> FALSE, ra |-> FALSE, hi |-> 0]
\* n: the call's number, past: timestamp <= the now() it read, ret: its result
NoSet == [n |-> 0, past |-> FALSE, ret |-> FALSE]

Allocated == 0 .. (alarm_count - 1)

\* Handles are interchangeable (a callback touches only its own slot), so the
\* task takes them into use in allocation order: it gives handle h a callback
\* or a deadline only when every lower handle has its callback.
InOrder(h) == \A j \in 0 .. (h - 1) : alarms[j].callback # NULL

\* set_alarm timestamps the task passes, relative to the clock
Deltas == {0, 1, 2}
Inc2(n) == IF n < 2 THEN n + 1 ELSE 2

\* What is recorded per slot about the arming in force:
\*   armT    its deadline, while it has not fired (U64_MAX otherwise)
\*   done    set_alarm has returned true for it
\*   inTime  the clock was still before armT when set_alarm returned
\*   byCb    it was made by the slot's own callback
\*   fires   callback invocations since it began (counted up to 2)
\* and about the latest callback invocation of the slot:
\*   lastCtx the context pointer passed
\*   sawTs   the slot's deadline when the callback started
\*   cbFired the deadline that fired had been stored by the callback
\*   rearmT  the deadline the callback's set_alarm stored, until the handler returns
\*   kept    when the handler returned, the slot still held that deadline
\* and for the whole life of the slot:
\*   want    the deadline of the latest set_alarm accepted for it
\*   wantOld the deadline it was armed with when that set_alarm was accepted
\*   early   a callback invocation found the clock before the slot's deadline
GhostNew == [armT |-> U64_MAX, fires |-> 0, done |-> FALSE, inTime |-> FALSE,
             byCb |-> FALSE, lastCtx |-> 0, sawTs |-> U64_MAX,
             cbFired |-> FALSE, rearmT |-> U64_MAX, kept |-> TRUE,
             idleFired |-> FALSE, want |-> U64_MAX, wantOld |-> U64_MAX,
             early |-> FALSE]

\* the record of a slot whose callback is invoked with context cx while the
\* slot's deadline is tsSeen
GhostCalled(g, cx, tsSeen) ==
    [g EXCEPT !.fires = Inc2(@), !.armT = U64_MAX, !.done = FALSE,
              !.inTime = FALSE, !.lastCtx = cx, !.sawTs = tsSeen,
              !.cbFired = (g.byCb /\ g.armT # U64_MAX), !.rearmT = U64_MAX]

\* the record of a slot that the handler fires on finding deadline d in it
GhostDue(g, d) == [g EXCEPT !.idleFired = (@ \/ d = U64_MAX)]

\* the record of slot h when its callback is invoked while now() is nowv: the
\* slot's deadline is the accepted one, and also the one before it while the
\* task's set_alarm for the slot has not finished its store
GhostTimed(g, h, nowv) ==
    LET inStore == tpc \in {"sa_store1", "sa_store2", "sa_store"} /\ tl.h = h
    IN  [g EXCEPT !.early =
            (@ \/ (nowv < g.want /\ (~inStore \/ nowv < g.wantOld)))]

\* the record of a slot whose callback's set_alarm has stored deadline t
GhostRearmed(g, t) ==
    [g EXCEPT !.armT = t, !.fires = 0, !.done = TRUE, !.inTime = TRUE,
              !.byCb = TRUE, !.rearmT = t, !.want = t, !.wantOld = U64_MAX]

\* the record of a slot for which the task's set_alarm has accepted deadline t
GhostArming(g, t) ==
    [g EXCEPT !.armT = t, !.fires = 0, !.done = FALSE, !.inTime = FALSE,
              !.byCb = FALSE, !.want = t, !.wantOld = g.armT]

\* the record of a slot when the handler returns while the slot holds tsRet
GhostReturned(g, tsRet) ==
    IF g.rearmT = U64_MAX
    THEN g
    ELSE [g EXCEPT !.kept = (tsRet = g.rearmT), !.rearmT = U64_MAX]

InitClock ==
    /\ alarm_count = 0
    /\ alarms = [s \in Slots |-> AlarmStateNew]
    /\ ticks = 0
    /\ tpc = "idle"
    /\ tl = TaskIdle
    /\ nArm = 0
    /\ nCb = 0
    /\ fault = FALSE
    /\ gh = [s \in Slots |-> GhostNew]
    /\ issued = <<>>
    /\ lastAlloc = -2
    /\ lastSet = NoSet
    /\ lastNow = 0

IrqIdle == [k |-> 0, d |-> 0, now |-> 0, ovf |-> FALSE, ra |-> FALSE, hi |-> 0]

\* the RTC and its driver after RtcDriver::init
InitRtcHw ==
    /\ ovif = FALSE
    /\ alrmif = FALSE
    /\ alrm = Word - 1
    /\ rtcPend = FALSE
    /\ period = 0
    /\ ipc = "idle"
    /\ il = IrqIdle

\* the task: the one waker the executor passes to polls
TASK == "task"

DmaPollIdle == [sig |-> FALSE, hw |-> "none", tc |-> FALSE]
\* n: the poll's number (capped), res: pending | ok | err, prev: the result
\* of the poll before it, sig: the signal it read, hw: the state of the
\* hardware transfer when it began, tc: FTFIF had been raised since the start
\* when it began, reg: the channel's waker slot when it returned
NoPoll == [n |-> 0, res |-> "none", prev |-> "none", sig |-> FALSE,
           hw |-> "none", tc |-> FALSE, reg |-> NULL]

\* ChannelState::new, the DMA channel and the NVIC after reset
InitDma ==
    /\ dRaised = FALSE
    /\ dsignal = FALSE
    /\ dwaker = NULL
    /\ dIrqEn = FALSE
    /\ chen = FALSE
    /\ ftfie = FALSE
    /\ ftfif = FALSE
    /\ errif = FALSE
    /\ xfer = "none"
    /\ dpc = "idle"
    /\ dl = DmaPollIdle
    /\ dfut = "none"
    /\ dwoken = FALSE
    /\ nStart = 0
    /\ lastPoll = NoPoll

\* the wakers of the two tasks that use the UART
READER == "reader"
WRITER == "writer"

\* atomic_ring_buffer::RingBuffer after init: head counts the bytes pushed,
\* tail the bytes popped; byte number k lies in cell k mod capacity
RingNew == [buf |-> [i \in 0 .. (RingCap - 1) |-> 0], head |-> 0, tail |-> 0]
RingLen(r) == r.head - r.tail
RingIsEmpty(r) == r.head = r.tail
RingIsFull(r) == r.head - r.tail = RingCap
\* the bytes in the buffer, oldest first
RingContent(r) == [i \in 1 .. RingLen(r) |-> r.buf[(r.tail + i - 1) % RingCap]]
Min(a, b) == IF a < b THEN a ELSE b
\* Writer::push_buf: the length of the contiguous free run at head
RingPushBuf(r) == Min(RingCap - RingLen(r), RingCap - (r.head % RingCap))
\* Reader::pop_buf: the length of the contiguous run of bytes at tail
RingPopBuf(r) == Min(RingLen(r), RingCap - (r.tail % RingCap))
\* the caller copies the bytes of `data` into the run, then Writer::push_done
RingPushDone(r, data) ==
    [r EXCEPT !.buf = [i \in 0 .. (RingCap - 1) |->
                          IF \E k \in 1 .. Len(data) : (r.head + k - 1) % RingCap = i
                          THEN data[CHOOSE k \in 1 .. Len(data) :
                                        (r.head + k - 1) % RingCap = i]
                          ELSE r.buf[i]],
              !.head = r.head + Len(data)]
\* Reader::pop_done
RingPopDone(r, len) == [r EXCEPT !.tail = r.tail + len]
\* Writer::push_one: a full buffer rejects the byte
RingPushOne(r, byte) == IF RingIsFull(r) THEN r ELSE RingPushDone(r, <<byte>>)

\* tbe: the TBE branch ran, some: pop_one returned a byte, wake: the branch
\* called tx_waker.wake(), parked: the waker tx_waker held when it began
NoIrq == [tbe |-> FALSE, some |-> FALSE, wake |-> FALSE, parked |-> NULL]
UartIdle == [who |-> "none", n |-> 0, empty |-> FALSE]
NoOp == [kind |-> "none", st |-> "none", len |-> 0, need |-> 0]

\* UartBuffered::new and the USART after configure
InitUart ==
    /\ rx = RingNew
    /\ tx = RingNew
    /\ rx_waker = NULL
    /\ tx_waker = NULL
    /\ rbne = FALSE
    /\ tbe = TRUE
    /\ rdata = 0
    /\ tbeie = FALSE
    /\ uMasked = FALSE
    /\ upc = "idle"
    /\ ul = UartIdle
    /\ rop = NoOp
    /\ wop = NoOp
    /\ rWoken = FALSE
    /\ wWoken = FALSE
    /\ rxIn = 0
    /\ rxAcc = <<>>
    /\ rxRead = <<>>
    /\ dataLog = <<>>
    /\ lastIrq = NoIrq

\* the tasks that may register on the shared slot
Wakers == {"t1", "t2"}
\* op: register | signal, w: the waker registered, before: the slot before the
\* operation, regs: 2 when the latest registration found its own waker in
\* the slot, 1 when it did not
NoWakerOp == [op |-> "none", w |-> NULL, before |-> NULL, regs |-> 0]

InitWaker ==
    /\ wslot = NULL
    /\ wakes = [t \in Wakers |-> 0]
    /\ wregs = [t \in Wakers |-> 0]
    /\ wlast = NoWakerOp

\* div = -1: calc_bauddiv has not returned
NoBauddiv == [pclk |-> 0, baud |-> 0, oversample |-> "none", div |-> -1]

\* the EXTI lines: 0 .. EXTI_COUNT - 1 in the source
Lines == 0 .. (ExtiLines - 1)

\* the EXTI registers after reset, no future created
InitExti ==
    /\ inten = [l \in Lines |-> FALSE]
    /\ rten = [l \in Lines |-> FALSE]
    /\ ften = [l \in Lines |-> FALSE]
    /\ pd = [l \in Lines |-> FALSE]
    /\ EXTI_WAKERS = [l \in Lines |-> FALSE]
    /\ efut = [l \in Lines |-> "none"]
    /\ epc = [l \in Lines |-> "idle"]
    /\ rose = [l \in Lines |-> FALSE]

\* no call of compute_baud_rate
NoSpi == [pclk |-> 0, target |-> 0, val |-> "none"]

InitIO ==
    /\ InitDma /\ InitUart /\ InitWaker /\ bauddiv = NoBauddiv
    /\ InitExti /\ level = [l \in Lines |-> FALSE]
    /\ spi = NoSpi

\* ================================================================ SysTick
\* SystickDriver::now
SystickNow == ts

\* the rejection test of SystickDriver::set_alarm, accepting timestamp = now
SystickInPastStrict(timestamp, now) == timestamp < now

\* the rejection test of SystickDriver::set_alarm
SystickInPast(timestamp, now) == timestamp <= now

\* The effect of calling the function pointer stored in slot h with its ctx
\* from inside the handler; d is the deadline that fired, nowv what now()
\* returns there.  st = [al, g, fault].
SystickCall(st, h, d, nowv) ==
    LET cb == st.al[h].callback
        cx == st.al[h].ctx
        g1 == [st.g EXCEPT ![h] =
                  GhostTimed(GhostDue(GhostCalled(@, cx, st.al[h].ts), d), h, nowv)]
    IN  IF cb = NULL
        THEN [st EXCEPT !.fault = TRUE]
        ELSE IF cb = "cb_rearm" /\ ~SystickInPast(d + cx, nowv)
        THEN [al |-> [st.al EXCEPT ![h].ts = d + cx],
              g |-> [g1 EXCEPT ![h] = GhostRearmed(@, d + cx)],
              fault |-> st.fault]
        ELSE [st EXCEPT !.g = g1]

\* AlarmState::trigger with the reset moved after the call
TriggerCallFirst(st, h, nowv) ==
    LET s1 == SystickCall(st, h, st.al[h].ts, nowv)
    IN  [s1 EXCEPT !.al[h].ts = U64_MAX]

\* AlarmState::trigger
Trigger(st, h, nowv) ==
    SystickCall([st EXCEPT !.al[h].ts = U64_MAX], h, st.al[h].ts, nowv)

\* the value the handler compares the deadlines with: what fetch_add returned
SystickCompare(old) == old

\* the handler firing every slot that has a callback
SystickDueAny(a, tsv) == a.callback # NULL
\* the handler's test of one slot
SystickDue(a, tsv) == a.ts <= tsv

\* the for loop of systick_timedriver_interrupt over alarms[i .. n-1]
RECURSIVE SystickScan(_, _, _, _, _)
SystickScan(st, i, n, tsv, nowv) ==
    IF i >= n \/ st.fault
    THEN st
    ELSE SystickScan(IF SystickDue(st.al[i], tsv) THEN Trigger(st, i, nowv) ELSE st,
                     i + 1, n, tsv, nowv)

\* systick_timedriver_interrupt
systick_timedriver_interrupt ==
    LET old == ts
        st0 == [al |-> alarms, g |-> gh, fault |-> fault]
        st1 == SystickScan(st0, 0, alarm_count, SystickCompare(old), old + 1)
    IN  /\ ts' = old + 1
        /\ alarms' = st1.al
        /\ gh' = [h \in Slots |-> GhostReturned(st1.g[h], st1.al[h].ts)]
        /\ fault' = st1.fault

\* the test inside the fetch_update closure of SystickDriver::allocate_alarm
SystickAllocFree(x) == x < SYSTICK_ALARM_COUNT

\* SystickDriver::allocate_alarm: the fetch_update and the match on its result
SystickAllocate ==
    IF SystickAllocFree(alarm_count)
    THEN /\ alarm_count' = alarm_count + 1
         /\ lastAlloc' = alarm_count
         /\ issued' = Append(issued, alarm_count)
    ELSE /\ lastAlloc' = -1
         /\ UNCHANGED <<alarm_count, issued>>

\* set_alarm_callback storing into a fresh AlarmState: the deadline is reset
SystickStoreCallbackReset(h, cb, cx) ==
    alarms' = [alarms EXCEPT ![h] = [ts |-> U64_MAX, callback |-> cb, ctx |-> cx]]

\* SystickDriver::set_alarm_callback: the closure run by lock(), SysTick masked
SystickStoreCallback(h, cb, cx) ==
    alarms' = [alarms EXCEPT ![h].callback = cb, ![h].ctx = cx]

\* a set_alarm that stores the timestamp before it compares it with now
SystickSetAlarmCheckLate(h, t) ==
    LET now == SystickNow
    IN  IF SystickInPast(t, now)
        THEN /\ lastSet' = [n |-> nArm + 1, past |-> (t <= now), ret |-> FALSE]
             /\ alarms' = [alarms EXCEPT ![h].ts = t]
             /\ UNCHANGED <<tpc, tl, gh>>
        ELSE /\ tpc' = "sa_store1"
             /\ tl' = [TaskIdle EXCEPT !.op = "set_alarm", !.h = h, !.t = t, !.now = now]
             /\ gh' = [gh EXCEPT ![h] = GhostArming(@, t)]
             /\ UNCHANGED <<lastSet, alarms>>

\* SystickDriver::set_alarm, lines 110-112: read now, reject a past timestamp
\* and touch nothing
SystickSetAlarmCheck(h, t) ==
    LET now == SystickNow
    IN  IF SystickInPast(t, now)
        THEN /\ lastSet' = [n |-> nArm + 1, past |-> (t <= now), ret |-> FALSE]
             /\ UNCHANGED <<tpc, tl, gh, alarms>>
        ELSE /\ tpc' = "sa_store1"
             /\ tl' = [TaskIdle EXCEPT !.op = "set_alarm", !.h = h, !.t = t, !.now = now]
             /\ gh' = [gh EXCEPT ![h] = GhostArming(@, t)]
             /\ UNCHANGED <<lastSet, alarms>>

\* SystickDriver::set_alarm, line 116: `alarm.ts = timestamp` is a plain u64
\* store outside lock(); a 32-bit core writes it as two word stores, in an
\* order the compiler picks, and the SysTick handler may run between them.
SystickStoreFirstWord(first) ==
    alarms' = [alarms EXCEPT ![tl.h].ts =
                  IF first = "lo" THEN Join(Hi(@), Lo(tl.t))
                                  ELSE Join(Hi(tl.t), Lo(@))]

SystickStoreSecondWord ==
    alarms' = [alarms EXCEPT ![tl.h].ts =
                  IF tl.first = "lo" THEN Join(Hi(tl.t), Lo(@))
                                     ELSE Join(Hi(@), Lo(tl.t))]

\* ---- the SysTick driver's steps
SystickTickUpTo(limit) ==
    /\ unit = "systick"
    /\ ~fault
    /\ ticks < limit
    /\ ticks' = ticks + 1
    /\ systick_timedriver_interrupt
    /\ UNCHANGED <<unit, bauddiv, spi, extiVars, ioVars, alarm_count, tpc, tl, nArm, nCb, issued, lastAlloc,
                   lastSet, lastNow, rtcVars>>

SystickTick == SystickTickUpTo(MaxTick)

SystickAllocateAlarm ==
    /\ unit = "systick"
    /\ tpc = "idle"
    /\ ~fault
    /\ SystickAllocate
    /\ UNCHANGED <<unit, bauddiv, spi, extiVars, ioVars, alarms, ts, ticks, tpc, tl, nArm, nCb, fault, gh,
                   lastSet, lastNow, rtcVars>>

SystickSetAlarmCallback(h, cb, cx) ==
    /\ unit = "systick"
    /\ tpc = "idle"
    /\ ~fault
    /\ nCb < MaxCb
    /\ h \in Allocated
    /\ InOrder(h)
    /\ nCb' = nCb + 1
    /\ SystickStoreCallback(h, cb, cx)
    /\ UNCHANGED <<unit, bauddiv, spi, extiVars, ioVars, alarm_count, ts, ticks, tpc, tl, nArm, fault, gh,
                   issued, lastAlloc, lastSet, lastNow, rtcVars>>

SystickSetAlarm(h, t) ==
    /\ unit = "systick"
    /\ tpc = "idle"
    /\ ~fault
    /\ nArm < MaxArm
    /\ h \in Allocated
    /\ InOrder(h)
    /\ t >= 0
    /\ nArm' = nArm + 1
    /\ SystickSetAlarmCheck(h, t)
    /\ UNCHANGED <<unit, bauddiv, spi, extiVars, ioVars, alarm_count, ts, ticks, nCb, fault, issued,
                   lastAlloc, lastNow, rtcVars>>

SystickSetAlarmStore1 ==
    /\ unit = "systick"
    /\ tpc = "sa_store1"
    /\ ~fault
    /\ \E first \in {"lo", "hi"} :
         /\ tl' = [tl EXCEPT !.first = first]
         /\ SystickStoreFirstWord(first)
    /\ tpc' = "sa_store2"
    /\ UNCHANGED <<unit, bauddiv, spi, extiVars, ioVars, alarm_count, ts, ticks, nArm, nCb, fault, gh, issued,
                   lastAlloc, lastSet, lastNow, rtcVars>>

SystickSetAlarmStore2 ==
    /\ unit = "systick"
    /\ tpc = "sa_store2"
    /\ ~fault
    /\ SystickStoreSecondWord
    /\ gh' = [gh EXCEPT ![tl.h].done = TRUE, ![tl.h].inTime = (SystickNow < tl.t),
                         ![tl.h].want = tl.t, ![tl.h].wantOld = U64_MAX]
    /\ lastSet' = [n |-> nArm, past |-> (tl.t <= tl.now), ret |-> TRUE]
    /\ tpc' = "idle"
    /\ tl' = TaskIdle
    /\ UNCHANGED <<unit, bauddiv, spi, extiVars, ioVars, alarm_count, ts, ticks, nArm, nCb, fault, issued,
                   lastAlloc, lastNow, rtcVars>>

\* a now() call of the task
SystickTaskNow ==
    /\ unit = "systick"
    /\ tpc = "idle"
    /\ ~fault
    /\ lastNow' = SystickNow
    /\ UNCHANGED <<unit, bauddiv, spi, extiVars, ioVars, alarm_count, alarms, ts, ticks, tpc, tl, nArm, nCb,
                   fault, gh, issued, lastAlloc, lastSet, rtcVars>>

NextSystick ==
    \/ SystickTick
    \/ SystickAllocateAlarm
    \/ \E h \in Slots, p \in CallbackCtx : SystickSetAlarmCallback(h, p[1], p[2])
    \/ \E h \in Slots, d \in Deltas : SystickSetAlarm(h, ts + d)
    \/ SystickSetAlarmStore1
    \/ SystickSetAlarmStore2

InitSystick ==
    /\ InitIO
    /\ unit = "systick"
    /\ InitClock
    /\ InitRtcHw
    /\ rtcTime = 0
    /\ ts \in {0, Word - 2}

SpecSystick == InitSystick /\ [][NextSystick]_vars

\* The SysTick driver shortly before the low word of the clock wraps: the task
\* arms its alarms two and three ticks ahead, on either side of the wrap.
WrapDeltas == {2, 3}

NextWrap ==
    \/ SystickTick
    \/ SystickAllocateAlarm
    \/ \E h \in Slots, p \in CallbackCtx : SystickSetAlarmCallback(h, p[1], p[2])
    \/ \E h \in Slots, d \in WrapDeltas : SystickSetAlarm(h, ts + d)
    \/ SystickSetAlarmStore1
    \/ SystickSetAlarmStore2

InitWrap ==
    /\ InitIO
    /\ unit = "systick"
    /\ InitClock
    /\ InitRtcHw
    /\ rtcTime = 0
    /\ ts = Word - 3

SpecWrap == InitWrap /\ [][NextWrap]_vars

\* ==================================================================== RTC
\* The RTC counts on its own clock, also while the CPU is inside a critical
\* section or the handler.  Accesses to RTC registers are the steps of the
\* driver; what the CPU does to memory between two of them belongs to the
\* step of the earlier access.  The two half-word writes of the alarm register
\* are one step.

\* RTC_CNTH:RTC_CNTL
RtcCnt == rtcTime % Word

\* one tick of the RTC clock: the counter advances; wrapping raises OVIF and
\* reaching the alarm register raises ALRMIF; both are enabled in RTC_INTEN
RtcTick ==
    /\ unit = "rtc"
    /\ ~fault
    /\ ticks < MaxTick
    /\ ticks' = ticks + 1
    /\ rtcTime' = rtcTime + 1
    /\ LET cnt == (rtcTime + 1) % Word
       IN  /\ ovif' = (ovif \/ cnt = 0)
           /\ alrmif' = (alrmif \/ cnt = alrm)
           /\ rtcPend' = (rtcPend \/ cnt = 0 \/ cnt = alrm)
    /\ UNCHANGED <<unit, bauddiv, spi, extiVars, ioVars, alarm_count, alarms, ts, tpc, tl, nArm, nCb, fault, gh,
                   issued, lastAlloc, lastSet, lastNow, alrm, period, ipc, il>>

\* read_time, the read half of ctl.modify: the flag bits as read
RtcCtlRead(l) == [l EXCEPT !.ovf = ovif, !.ra = alrmif]

\* read_time, lines 59-61: `if overflow { self.period += 1 }`
RtcPeriodAfter(p, overflow) == IF overflow THEN p + 1 ELSE p

\* read_time, the write half of ctl.modify and the period update: OVIF is
\* written 0; ALRMIF is written back as it was read, and writing 0 clears it
RtcCtlWrite(l) ==
    /\ ovif' = FALSE
    /\ alrmif' = (alrmif /\ l.ra)
    /\ period' = RtcPeriodAfter(period, l.ovf)

\* read_counter: the read of RTC_CNTH
RtcReadCnth(l) == [l EXCEPT !.hi = RtcCnt \div Half]

\* read_counter: the read of RTC_CNTL, joined with the CNTH value read before,
\* and the composition of the time in read_time
RtcReadTimeResult(l) == period * Word + (l.hi * Half + (RtcCnt % Half))

\* get_next
RECURSIVE RtcGetNext(_, _, _)
RtcGetNext(al, i, n) ==
    IF i >= n THEN U64_MAX
    ELSE LET rest == RtcGetNext(al, i + 1, n)
         IN  IF al[i].ts < rest THEN al[i].ts ELSE rest

\* reset_alarm programming the deadline of the first slot
RtcAlarmValueFirst(al) == Lo(al[0].ts)
\* reset_alarm: the value written to RTC_ALRMH:RTC_ALRML
RtcAlarmValue(al) == Lo(RtcGetNext(al, 0, alarm_count))

\* the rejection test of RtcDriver::set_alarm
RtcInPast(timestamp, now) == timestamp <= now

\* the handler's test of one slot
RtcDue(a, now) == a.ts <= now

\* The for loop of on_interrupt over alarms[i .. n-1], up to the point where a
\* callback reads the RTC.  st = [al, g, fault, k, d]: k is the slot whose
\* callback is running (n when the loop is over), d the deadline that fired.
RECURSIVE RtcScan(_, _, _, _)
RtcScan(st, i, n, now) ==
    IF i >= n \/ st.fault
    THEN [st EXCEPT !.k = n]
    ELSE IF RtcDue(st.al[i], now)
    THEN LET d == st.al[i].ts
             a1 == [st.al EXCEPT ![i].ts = U64_MAX]
             cb == st.al[i].callback
             g1 == [st.g EXCEPT ![i] =
                       GhostTimed(GhostDue(GhostCalled(@, st.al[i].ctx, a1[i].ts), d),
                                  i, now)]
         IN  IF cb = NULL
             THEN [al |-> a1, g |-> st.g, fault |-> TRUE, k |-> n, d |-> 0]
             ELSE IF cb = "cb_rearm"
             THEN [al |-> a1, g |-> g1, fault |-> FALSE, k |-> i, d |-> d]
             ELSE RtcScan([st EXCEPT !.al = a1, !.g = g1], i + 1, n, now)
    ELSE RtcScan(st, i + 1, n, now)

\* the handler goes on with the loop from slot i and stops at the next RTC access
RtcScanFrom(al, g, i, l) ==
    LET st == RtcScan([al |-> al, g |-> g, fault |-> FALSE, k |-> 0, d |-> 0],
                      i, alarm_count, l.now)
    IN  /\ alarms' = st.al
        /\ gh' = st.g
        /\ fault' = st.fault
        /\ ipc' = IF st.k < alarm_count THEN "c_ctlr" ELSE "h_alrm"
        /\ il' = [l EXCEPT !.k = st.k, !.d = st.d]

\* critical_section::with / Mutex::lock: the task is inside one
TaskInCS == tpc \in {"n_ctlw", "n_cnth", "n_cntl"}

\* the RTC interrupt is taken as soon as it is pending and not masked
RtcDeliverable ==
    /\ ipc = "idle"
    /\ ~TaskInCS
    /\ (rtcPend \/ ovif \/ alrmif)

\* the task executes: no handler is running and none can be entered
RtcTaskRuns ==
    /\ unit = "rtc"
    /\ ~fault
    /\ ipc = "idle"
    /\ (TaskInCS \/ ~RtcDeliverable)

\* ---- RtcDriver::on_interrupt
\* entry, and the read half of the handler's ctl.modify
RtcIrqEnter ==
    /\ unit = "rtc"
    /\ ~fault
    /\ RtcDeliverable
    /\ rtcPend' = FALSE
    /\ il' = RtcCtlRead(IrqIdle)
    /\ ipc' = "h_ctlw"
    /\ UNCHANGED <<unit, bauddiv, spi, extiVars, ioVars, clockVars, rtcTime, ovif, alrmif, alrm, period>>

\* the write half of the handler's ctl.modify (ALRMIF written 0, OVIF written
\* back as read), then the read half of read_time's ctl.modify
RtcIrqCtlWrite ==
    /\ unit = "rtc"
    /\ ~fault
    /\ ipc = "h_ctlw"
    /\ alrmif' = FALSE
    /\ ovif' = (ovif /\ il.ovf)
    /\ il' = [il EXCEPT !.ovf = ovif', !.ra = FALSE]
    /\ ipc' = "h_rtw"
    /\ UNCHANGED <<unit, bauddiv, spi, extiVars, ioVars, clockVars, rtcTime, alrm, rtcPend, period>>

\* read_time in the handler and in a callback's set_alarm: the write half
RtcIrqReadTimeWrite ==
    /\ unit = "rtc"
    /\ ~fault
    /\ ipc \in {"h_rtw", "c_ctlw"}
    /\ RtcCtlWrite(il)
    /\ ipc' = IF ipc = "h_rtw" THEN "h_cnth" ELSE "c_cnth"
    /\ UNCHANGED <<unit, bauddiv, spi, extiVars, ioVars, clockVars, rtcTime, alrm, rtcPend, il>>

RtcIrqReadCnth ==
    /\ unit = "rtc"
    /\ ~fault
    /\ ipc \in {"h_cnth", "c_cnth"}
    /\ il' = RtcReadCnth(il)
    /\ ipc' = IF ipc = "h_cnth" THEN "h_cntl" ELSE "c_cntl"
    /\ UNCHANGED <<unit, bauddiv, spi, extiVars, ioVars, clockVars, rtcTime, ovif, alrmif, alrm, rtcPend, period>>

\* the handler has `now` and runs the loop
RtcIrqScan ==
    /\ unit = "rtc"
    /\ ~fault
    /\ ipc = "h_cntl"
    /\ RtcScanFrom(alarms, gh, 0, [il EXCEPT !.now = RtcReadTimeResult(il)])
    /\ UNCHANGED <<unit, bauddiv, spi, extiVars, ioVars, alarm_count, ts, ticks, tpc, tl, nArm, nCb, issued,
                   lastAlloc, lastSet, lastNow, rtcTime, ovif, alrmif, alrm,
                   rtcPend, period>>

\* cb_rearm calls set_alarm(own handle, d + ctx): the read half of its read_time
RtcCbCtlRead ==
    /\ unit = "rtc"
    /\ ~fault
    /\ ipc = "c_ctlr"
    /\ il' = RtcCtlRead(il)
    /\ ipc' = "c_ctlw"
    /\ UNCHANGED <<unit, bauddiv, spi, extiVars, ioVars, clockVars, rtcTime, ovif, alrmif, alrm, rtcPend, period>>

\* set_alarm in the callback has its `now`: it rejects, and the loop goes on,
\* or it stores the deadline
RtcCbSetAlarm ==
    /\ unit = "rtc"
    /\ ~fault
    /\ ipc = "c_cntl"
    /\ LET t == il.d + alarms[il.k].ctx
       IN  IF RtcInPast(t, RtcReadTimeResult(il))
           THEN RtcScanFrom(alarms, gh, il.k + 1, il)
           ELSE /\ alarms' = [alarms EXCEPT ![il.k].ts = t]
                /\ gh' = [gh EXCEPT ![il.k] = GhostRearmed(@, t)]
                /\ ipc' = "c_alrm"
                /\ UNCHANGED <<il, fault>>
    /\ UNCHANGED <<unit, bauddiv, spi, extiVars, ioVars, alarm_count, ts, ticks, tpc, tl, nArm, nCb, issued,
                   lastAlloc, lastSet, lastNow, rtcTime, ovif, alrmif, alrm,
                   rtcPend, period>>

\* reset_alarm at the end of the callback's set_alarm; the loop goes on
RtcCbResetAlarm ==
    /\ unit = "rtc"
    /\ ~fault
    /\ ipc = "c_alrm"
    /\ alrm' = RtcAlarmValue(alarms)
    /\ RtcScanFrom(alarms, gh, il.k + 1, il)
    /\ UNCHANGED <<unit, bauddiv, spi, extiVars, ioVars, alarm_count, ts, ticks, tpc, tl, nArm, nCb, issued,
                   lastAlloc, lastSet, lastNow, rtcTime, ovif, alrmif,
                   rtcPend, period>>

\* reset_alarm at the end of on_interrupt, and the return
RtcIrqReturn ==
    /\ unit = "rtc"
    /\ ~fault
    /\ ipc = "h_alrm"
    /\ alrm' = RtcAlarmValue(alarms)
    /\ gh' = [h \in Slots |-> GhostReturned(gh[h], alarms[h].ts)]
    /\ ipc' = "idle"
    /\ il' = IrqIdle
    /\ UNCHANGED <<unit, bauddiv, spi, extiVars, ioVars, alarm_count, alarms, ts, ticks, tpc, tl, nArm, nCb,
                   fault, issued, lastAlloc, lastSet, lastNow, rtcTime, ovif,
                   alrmif, rtcPend, period>>

\* ---- the task's calls into the RTC driver
\* allocate_alarm handing out one handle more than the table has slots
RtcAllocOffByOne(x) == x <= RTC_ALARM_COUNT

\* the test inside the fetch_update closure of RtcDriver::allocate_alarm
RtcAllocFree(x) == x < RTC_ALARM_COUNT

\* RtcDriver::allocate_alarm: the fetch_update and the match on its result
RtcAllocate ==
    IF RtcAllocFree(alarm_count)
    THEN /\ alarm_count' = alarm_count + 1
         /\ lastAlloc' = alarm_count
         /\ issued' = Append(issued, alarm_count)
    ELSE /\ lastAlloc' = -1
         /\ UNCHANGED <<alarm_count, issued>>

RtcAllocateAlarm ==
    /\ RtcTaskRuns
    /\ tpc = "idle"
    /\ RtcAllocate
    /\ UNCHANGED <<unit, bauddiv, spi, extiVars, ioVars, alarms, ts, ticks, tpc, tl, nArm, nCb, fault, gh,
                   lastSet, lastNow, rtcVars>>

\* RtcDriver::set_alarm_callback: both stores inside critical_section::with
RtcSetAlarmCallback(h, cb, cx) ==
    /\ RtcTaskRuns
    /\ tpc = "idle"
    /\ nCb < MaxCb
    /\ h \in Allocated
    /\ InOrder(h)
    /\ nCb' = nCb + 1
    /\ alarms' = [alarms EXCEPT ![h].callback = cb, ![h].ctx = cx]
    /\ UNCHANGED <<unit, bauddiv, spi, extiVars, ioVars, alarm_count, ts, ticks, tpc, tl, nArm, fault, gh,
                   issued, lastAlloc, lastSet, lastNow, rtcVars>>

\* RtcDriver::now entered directly (op = "now") or from set_alarm: the lock
\* is taken and read_time reads RTC_CTL
RtcTaskCtlRead(op, h, t) ==
    /\ RtcTaskRuns
    /\ tpc = "idle"
    /\ tl' = RtcCtlRead([TaskIdle EXCEPT !.op = op, !.h = h, !.t = t])
    /\ tpc' = "n_ctlw"

RtcTaskNow ==
    /\ RtcTaskCtlRead("now", 0, 0)
    /\ UNCHANGED <<unit, bauddiv, spi, extiVars, ioVars, alarm_count, alarms, ts, ticks, nArm, nCb, fault, gh,
                   issued, lastAlloc, lastSet, lastNow, rtcVars>>

RtcSetAlarm(h, t) ==
    /\ nArm < MaxArm
    /\ h \in Allocated
    /\ InOrder(h)
    /\ nArm' = nArm + 1
    /\ RtcTaskCtlRead("set_alarm", h, t)
    /\ UNCHANGED <<unit, bauddiv, spi, extiVars, ioVars, alarm_count, alarms, ts, ticks, nCb, fault, gh,
                   issued, lastAlloc, lastSet, lastNow, rtcVars>>

RtcTaskReadTimeWrite ==
    /\ RtcTaskRuns
    /\ tpc = "n_ctlw"
    /\ RtcCtlWrite(tl)
    /\ tpc' = "n_cnth"
    /\ UNCHANGED <<unit, bauddiv, spi, extiVars, ioVars, alarm_count, alarms, ts, ticks, tl, nArm, nCb, fault,
                   gh, issued, lastAlloc, lastSet, lastNow, rtcTime, alrm,
                   rtcPend, ipc, il>>

RtcTaskReadCnth ==
    /\ RtcTaskRuns
    /\ tpc = "n_cnth"
    /\ tl' = RtcReadCnth(tl)
    /\ tpc' = "n_cntl"
    /\ UNCHANGED <<unit, bauddiv, spi, extiVars, ioVars, alarm_count, alarms, ts, ticks, nArm, nCb, fault, gh,
                   issued, lastAlloc, lastSet, lastNow, rtcVars>>

\* now() returns and the lock is released; set_alarm, lines 228-232, rejects a
\* timestamp in the past
RtcTaskNowReturn ==
    /\ RtcTaskRuns
    /\ tpc = "n_cntl"
    /\ LET now == RtcReadTimeResult(tl)
       IN  IF tl.op = "now"
           THEN /\ lastNow' = now
                /\ tpc' = "idle"
                /\ tl' = TaskIdle
                /\ UNCHANGED <<gh, lastSet>>
           ELSE IF RtcInPast(tl.t, now)
           THEN /\ lastSet' = [n |-> nArm, past |-> (tl.t <= now), ret |-> FALSE]
                /\ tpc' = "idle"
                /\ tl' = TaskIdle
                /\ UNCHANGED <<gh, lastNow>>
           ELSE /\ tpc' = "sa_store"
                /\ tl' = [tl EXCEPT !.now = now]
                /\ gh' = [gh EXCEPT ![tl.h] = GhostArming(@, tl.t)]
                /\ UNCHANGED <<lastSet, lastNow>>
    /\ UNCHANGED <<unit, bauddiv, spi, extiVars, ioVars, alarm_count, alarms, ts, ticks, nArm, nCb, fault,
                   issued, lastAlloc, rtcVars>>

\* set_alarm, lines 234-241: the store and reset_alarm inside
\* critical_section::with, and the return of true
RtcSetAlarmStore ==
    /\ RtcTaskRuns
    /\ tpc = "sa_store"
    /\ alarms' = [alarms EXCEPT ![tl.h].ts = tl.t]
    /\ alrm' = RtcAlarmValue(alarms')
    /\ gh' = [gh EXCEPT ![tl.h].done = TRUE, ![tl.h].inTime = (rtcTime < tl.t),
                         ![tl.h].want = tl.t, ![tl.h].wantOld = U64_MAX]
    /\ lastSet' = [n |-> nArm, past |-> (tl.t <= tl.now), ret |-> TRUE]
    /\ tpc' = "idle"
    /\ tl' = TaskIdle
    /\ UNCHANGED <<unit, bauddiv, spi, extiVars, ioVars, alarm_count, ts, ticks, nArm, nCb, fault, issued,
                   lastAlloc, lastNow, rtcTime, ovif, alrmif, rtcPend, period,
                   ipc, il>>

\* the alarm operations of the RTC driver, with the hardware and the handler
NextRtc ==
    \/ RtcTick
    \/ RtcIrqEnter
    \/ RtcIrqCtlWrite
    \/ RtcIrqReadTimeWrite
    \/ RtcIrqReadCnth
    \/ RtcIrqScan
    \/ RtcCbCtlRead
    \/ RtcCbSetAlarm
    \/ RtcCbResetAlarm
    \/ RtcIrqReturn
    \/ RtcAllocateAlarm
    \/ \E h \in Slots, p \in CallbackCtx : RtcSetAlarmCallback(h, p[1], p[2])
    \/ \E h \in Slots, d \in Deltas : RtcSetAlarm(h, rtcTime + d)
    \/ RtcTaskReadTimeWrite
    \/ RtcTaskReadCnth
    \/ RtcTaskNowReturn
    \/ RtcSetAlarmStore

InitRtc ==
    /\ InitIO
    /\ unit = "rtc"
    /\ InitClock
    /\ InitRtcHw
    /\ rtcTime \in {0, Word - 2}
    /\ ts = 0

SpecRtc == InitRtc /\ [][NextRtc]_vars

\* ============================================================ waker slot
\* register keeping the waker the slot already holds
WakerRegisterKeep(slot, w) == IF slot = NULL THEN w ELSE slot
\* register (utils.rs InterruptWaker::register, the behaviour of
\* WakerRegistration::register): the slot takes the waker
WakerRegister(slot, w) == w
\* register: a stored waker that will not wake the same task is woken
WakerRegisterWakes(slot, w) == IF slot # NULL /\ slot # w THEN slot ELSE NULL

\* signal leaving the waker in the slot
WakerWakeKeep(slot) == slot
\* signal / wake: the waker is taken out of the slot
WakerWake(slot) == NULL
\* signal waking the first task, whatever the slot holds
WakerWakeWakesFirst(slot) == "t1"
\* signal / wake: the waker taken out is woken
WakerWakeWakes(slot) == slot

\* wakes after waker t has been woken (t = NULL: nobody)
Woken(wk, t) == IF t = NULL THEN wk ELSE [wk EXCEPT ![t] = wk[t] + 1]

\* a task polls an operation that parks on the slot
WakerSlotRegister ==
    /\ unit = "waker"
    /\ \E w \in Wakers :
          /\ wregs[w] < MaxWake
          /\ wregs' = [wregs EXCEPT ![w] = wregs[w] + 1]
          /\ WakerRegisterWakes(wslot, w) # NULL
                => wakes[WakerRegisterWakes(wslot, w)] < MaxWake
          /\ wslot' = WakerRegister(wslot, w)
          /\ wakes' = Woken(wakes, WakerRegisterWakes(wslot, w))
          /\ wlast' = [op |-> "register", w |-> w, before |-> wslot,
                       regs |-> IF wslot = w THEN 2 ELSE 1]
    /\ UNCHANGED <<unit, bauddiv, spi, extiVars, clockVars, rtcVars, dmaVars, uartVars>>

\* the interrupt signals the slot
WakerSlotSignal ==
    /\ unit = "waker"
    /\ WakerWakeWakes(wslot) # NULL => wakes[WakerWakeWakes(wslot)] < MaxWake
    /\ wslot' = WakerWake(wslot)
    /\ wakes' = Woken(wakes, WakerWakeWakes(wslot))
    /\ wlast' = [op |-> "signal", w |-> NULL, before |-> wslot, regs |-> wlast.regs]
    /\ UNCHANGED wregs
    /\ UNCHANGED <<unit, bauddiv, spi, extiVars, clockVars, rtcVars, dmaVars, uartVars>>

NextWaker ==
    \/ WakerSlotRegister
    \/ WakerSlotSignal

InitWakerUnit ==
    /\ unit = "waker"
    /\ InitClock
    /\ InitRtcHw
    /\ rtcTime = 0
    /\ ts = 0
    /\ InitIO

SpecWaker == InitWakerUnit /\ [][NextWaker]_vars

\* ==================================================================== DMA

\* ChannelState::with leaving the channel interrupt enabled
DmaNotMasked(en) == en

\* ChannelState::with, `irq.disable()`: the NVIC enable bit inside the closure
DmaMasked(en) == FALSE

\* the channel's interrupt request: FTFIF with FTFIE (only ftfie is set in the
\* control word that read_inner / write_inner build)
DmaLine == ftfif /\ ftfie

\* the channel interrupt is taken as soon as it is requested and enabled
DmaDeliverable == dIrqEn /\ DmaLine

\* the task executes: the handler is not due
DmaTaskRuns == unit = "dma" /\ ~DmaDeliverable

\* the hardware finishes the running transfer
DmaHwComplete ==
    /\ unit = "dma"
    /\ xfer = "running"
    /\ xfer' = "done"
    /\ ftfif' = TRUE
    /\ dRaised' = TRUE
    /\ UNCHANGED <<unit, bauddiv, spi, extiVars, clockVars, rtcVars, wakerVars, uartVars, dsignal, dwaker, dIrqEn, chen, ftfie,
                   errif, dpc, dl, dfut, dwoken, nStart, lastPoll>>

\* the hardware hits a transfer error: ERRIF is set and the channel stops
DmaHwError ==
    /\ unit = "dma"
    /\ xfer = "running"
    /\ xfer' = "error"
    /\ errif' = TRUE
    /\ chen' = FALSE
    /\ UNCHANGED <<unit, bauddiv, spi, extiVars, clockVars, rtcVars, wakerVars, uartVars, dRaised,
                   dsignal, dwaker, dIrqEn, ftfie,
                   ftfif, dpc, dl, dfut, dwoken, nStart, lastPoll>>

\* ChannelState::interrupt raising the signal only for a parked task
DmaChannelInterruptIfParked ==
    /\ dsignal' = (dsignal \/ dwaker # NULL)
    /\ dwaker' = WakerWake(dwaker)
    /\ dwoken' = (dwoken \/ WakerWakeWakes(dwaker) = TASK)

\* ChannelState::interrupt
DmaChannelInterrupt ==
    /\ dsignal' = TRUE
    /\ dwaker' = WakerWake(dwaker)
    /\ dwoken' = (dwoken \/ WakerWakeWakes(dwaker) = TASK)

\* DMA0_CHANNEL0: INTF is read (an error is only logged), all four flags of
\* the channel are cleared through INTC, the channel state is signalled
DMA0_CHANNEL0 ==
    /\ unit = "dma"
    /\ DmaDeliverable
    /\ ftfif' = FALSE
    /\ errif' = FALSE
    /\ DmaChannelInterrupt
    /\ UNCHANGED <<unit, bauddiv, spi, extiVars, clockVars, rtcVars, wakerVars, uartVars, dRaised,
                   dIrqEn, chen, ftfie, xfer, dpc, dl,
                   dfut, nStart, lastPoll>>

\* a start that keeps the signal and the waker registration of the channel
DmaStartKeep ==
    /\ DmaTaskRuns
    /\ dpc = "idle"
    /\ nStart < MaxStart
    /\ nStart' = nStart + 1
    /\ dIrqEn' = DmaMasked(dIrqEn)
    /\ dRaised' = FALSE
    /\ dfut' = "none"
    /\ dwoken' = FALSE
    /\ dpc' = "st_cfg"
    /\ UNCHANGED <<unit, bauddiv, spi, extiVars, clockVars, rtcVars, wakerVars, uartVars, chen, ftfie,
                   ftfif, errif, xfer, dl, lastPoll, dsignal, dwaker>>

\* read_inner / write_inner up to configure_channel: inside with(), the
\* signal is cleared and the waker registration replaced by an empty one.
\* A Transfer the task still held is dropped.
DmaStart ==
    /\ DmaTaskRuns
    /\ dpc = "idle"
    /\ nStart < MaxStart
    /\ nStart' = nStart + 1
    /\ dIrqEn' = DmaMasked(dIrqEn)
    /\ dsignal' = FALSE
    /\ dwaker' = NULL
    /\ dRaised' = FALSE
    /\ dfut' = "none"
    /\ dwoken' = FALSE
    /\ dpc' = "st_cfg"
    /\ UNCHANGED <<unit, bauddiv, spi, extiVars, clockVars, rtcVars, wakerVars, uartVars, chen, ftfie, ftfif, errif, xfer, dl,
                   lastPoll>>

\* configure_channel (the channel is disabled, programmed and enabled with
\* ftfie | chen; INTF is not touched), irq.enable(), Transfer::new
DmaConfigure ==
    /\ DmaTaskRuns
    /\ dpc = "st_cfg"
    /\ chen' = TRUE
    /\ ftfie' = TRUE
    /\ xfer' = "running"
    /\ dIrqEn' = TRUE
    /\ dfut' = "fresh"
    /\ dpc' = "idle"
    /\ UNCHANGED <<unit, bauddiv, spi, extiVars, clockVars, rtcVars, wakerVars, uartVars, dRaised,
                   dsignal, dwaker, ftfif, errif, dl,
                   dwoken, nStart, lastPoll>>

\* the task polls its Transfer when it is new, done, or when it was woken
DmaPollable == dfut \in {"fresh", "ready"} \/ (dfut = "pending" /\ dwoken)

\* Transfer::poll: with() is entered and `inner.signal` is read
DmaPollEnter ==
    /\ DmaTaskRuns
    /\ dpc = "idle"
    /\ DmaPollable
    /\ dwoken' = FALSE
    /\ dIrqEn' = DmaMasked(dIrqEn)
    /\ dl' = [sig |-> dsignal, hw |-> xfer, tc |-> dRaised]
    /\ dpc' = "poll"
    /\ UNCHANGED <<unit, bauddiv, spi, extiVars, clockVars, rtcVars, wakerVars, uartVars, dRaised,
                   dsignal, dwaker, chen, ftfie, ftfif,
                   errif, xfer, dfut, nStart, lastPoll>>

\* Transfer::poll returning Ready for a clear signal
DmaPollReadyNot(sig) == ~sig

\* Transfer::poll, line 269: `if inner.signal`
DmaPollReady(sig) == sig

\* Transfer::poll: Ready(Ok(())), or the waker is registered and Pending is
\* returned; with() re-enables the interrupt
DmaPollFinish ==
    /\ DmaTaskRuns
    /\ dpc = "poll"
    /\ IF DmaPollReady(dl.sig)
       THEN /\ dfut' = "ready"
            /\ dwaker' = dwaker
            /\ lastPoll' = [n |-> Inc2(lastPoll.n), res |-> "ok",
                            prev |-> lastPoll.res, sig |-> dl.sig,
                            hw |-> dl.hw, tc |-> dl.tc, reg |-> dwaker]
       ELSE /\ dfut' = "pending"
            /\ dwaker' = WakerRegister(dwaker, TASK)
            /\ lastPoll' = [n |-> Inc2(lastPoll.n), res |-> "pending",
                            prev |-> lastPoll.res, sig |-> dl.sig,
                            hw |-> dl.hw, tc |-> dl.tc, reg |-> dwaker']
    /\ dIrqEn' = TRUE
    /\ dpc' = "idle"
    /\ dl' = DmaPollIdle
    /\ UNCHANGED <<unit, bauddiv, spi, extiVars, clockVars, rtcVars, wakerVars, uartVars, dRaised,
                   dsignal, chen, ftfie, ftfif, errif,
                   xfer, dwoken, nStart>>

\* a drop that also stops the channel
DmaDropAbort ==
    /\ DmaTaskRuns
    /\ dpc = "idle"
    /\ dfut \in {"fresh", "pending"}
    /\ dfut' = "dropped"
    /\ chen' = FALSE
    /\ xfer' = "none"
    /\ UNCHANGED <<unit, bauddiv, spi, extiVars, clockVars, rtcVars, wakerVars, uartVars, dRaised,
                   dsignal, dwaker, dIrqEn, ftfie, ftfif, errif,
                   dpc, dl, dwoken, nStart, lastPoll>>

\* the task drops its Transfer before it resolved: Transfer has no Drop
\* implementation, only the borrow of the channel ends
DmaDrop ==
    /\ DmaTaskRuns
    /\ dpc = "idle"
    /\ dfut \in {"fresh", "pending"}
    /\ dfut' = "dropped"
    /\ UNCHANGED <<unit, bauddiv, spi, extiVars, clockVars, rtcVars, wakerVars, uartVars, dRaised,
                   dsignal, dwaker, dIrqEn, chen, ftfie, ftfif, errif, xfer,
                   dpc, dl, dwoken, nStart, lastPoll>>

NextDma ==
    \/ DmaHwComplete
    \/ DmaHwError
    \/ DMA0_CHANNEL0
    \/ DmaStart
    \/ DmaConfigure
    \/ DmaPollEnter
    \/ DmaPollFinish
    \/ DmaDrop

InitDmaUnit ==
    /\ unit = "dma"
    /\ InitClock
    /\ InitRtcHw
    /\ rtcTime = 0
    /\ ts = 0
    /\ InitIO

SpecDma == InitDmaUnit /\ [][NextDma]_vars

\* The channel with its scheduling: a requested, enabled interrupt is taken;
\* the executor polls a new or woken future, and a call that has begun runs to
\* its end.  Starting and dropping are the task's choice.
DmaFairness ==
    /\ WF_vars(DMA0_CHANNEL0)
    /\ WF_vars(DmaConfigure)
    /\ WF_vars(DmaPollEnter)
    /\ WF_vars(DmaPollFinish)

SpecDmaLive == InitDmaUnit /\ [][NextDma]_vars /\ DmaFairness

\* ---------------------------------------------------------------------------
\* Buffered UART (usart/buffered.rs).  The interrupt produces into the RX ring
\* buffer and consumes from the TX ring buffer; the tasks do the opposite.  The
\* bytes of either direction are numbered 1, 2, 3, ... in the order in which
\* they are offered.
\* ---------------------------------------------------------------------------

\* PeripheralMutex::with masks the peripheral's interrupt for the closure
UartMasked == TRUE

\* the level of the USART interrupt line: RBNEIE is set by new()
UartLine == rbne \/ (tbe /\ tbeie)
UartDeliverable == ~uMasked /\ UartLine
\* the interrupt preempts the task as soon as it is deliverable
UartTaskRuns == unit = "uart" /\ ~UartDeliverable

\* the line delivers a byte; a byte that finds RBNE set is lost (overrun)
UartHwRx ==
    /\ unit = "uart"
    /\ rxIn < MaxRx
    /\ rxIn' = rxIn + 1
    /\ rbne' = TRUE
    /\ rdata' = IF rbne THEN rdata ELSE rxIn + 1
    /\ UNCHANGED <<unit, bauddiv, spi, extiVars, clockVars, rtcVars, wakerVars, dmaVars, lastIrq, rxAcc, rxRead,
                   rx, tx, rx_waker, tx_waker, tbe,
                   tbeie, uMasked, upc, ul, rop, wop, rWoken, wWoken, dataLog>>

\* the transmitter moves the byte of USART_DATA to its shift register
UartHwTxShift ==
    /\ unit = "uart"
    /\ ~tbe
    /\ tbe' = TRUE
    /\ UNCHANGED <<unit, bauddiv, spi, extiVars, clockVars, rtcVars, wakerVars, dmaVars, lastIrq, rxAcc, rxRead,
                   rx, tx, rx_waker, tx_waker, rbne,
                   rdata, tbeie, uMasked, upc, ul, rop, wop, rWoken, wWoken, rxIn,
                   dataLog>>

\* the RBNE branch making room in a full buffer by dropping its oldest byte
UartOnRbneDropOldest ==
    /\ rbne' = FALSE
    /\ rx' = RingPushOne(IF RingIsFull(rx) THEN RingPopDone(rx, 1) ELSE rx, rdata)
    /\ rxAcc' = Append(rxAcc, rdata)
    /\ rx_waker' = WakerWake(rx_waker)
    /\ rWoken' = (rWoken \/ rx_waker = READER)

\* StateInner::on_interrupt, the RBNE branch
UartOnRbne ==
    /\ rbne' = FALSE
    /\ rx' = RingPushOne(rx, rdata)
    /\ rxAcc' = IF RingIsFull(rx) THEN rxAcc ELSE Append(rxAcc, rdata)
    /\ rx_waker' = WakerWake(rx_waker)
    /\ rWoken' = (rWoken \/ rx_waker = READER)

\* Reader::pop_one, in the TBE branch: the byte at tail, or 0 for None (the
\* bytes are numbered from 1)
UartPopOne(r) == IF RingIsEmpty(r) THEN 0 ELSE r.buf[r.tail % RingCap]

\* the TBE branch writing the byte without waking the TX waker
UartOnTbeNoWake ==
    IF UartPopOne(tx) # 0
    THEN /\ tx' = RingPopDone(tx, 1)
         /\ dataLog' = Append(dataLog, UartPopOne(tx))
         /\ tbe' = FALSE
         /\ lastIrq' = [tbe |-> TRUE, some |-> TRUE, wake |-> FALSE,
                        parked |-> tx_waker]
         /\ UNCHANGED <<tx_waker, wWoken, tbeie>>
    ELSE /\ tbeie' = FALSE
         /\ lastIrq' = [tbe |-> TRUE, some |-> FALSE, wake |-> FALSE,
                        parked |-> tx_waker]
         /\ UNCHANGED <<tx, dataLog, tbe, tx_waker, wWoken>>

\* the TBE branch leaving the TX-ready interrupt enabled on an empty buffer
UartOnTbeKeepIe ==
    IF UartPopOne(tx) # 0
    THEN /\ tx' = RingPopDone(tx, 1)
         /\ dataLog' = Append(dataLog, UartPopOne(tx))
         /\ tbe' = FALSE
         /\ tx_waker' = WakerWake(tx_waker)
         /\ wWoken' = (wWoken \/ tx_waker = WRITER)
         /\ lastIrq' = [tbe |-> TRUE, some |-> TRUE, wake |-> TRUE,
                        parked |-> tx_waker]
         /\ UNCHANGED tbeie
    ELSE /\ lastIrq' = [tbe |-> TRUE, some |-> FALSE, wake |-> FALSE,
                        parked |-> tx_waker]
         /\ UNCHANGED <<tx, dataLog, tbe, tx_waker, wWoken, tbeie>>

\* the TBE branch switching TBEIE off after every byte it has written
UartOnTbeOneShot ==
    IF UartPopOne(tx) # 0
    THEN /\ tx' = RingPopDone(tx, 1)
         /\ dataLog' = Append(dataLog, UartPopOne(tx))
         /\ tbe' = FALSE
         /\ tx_waker' = WakerWake(tx_waker)
         /\ wWoken' = (wWoken \/ tx_waker = WRITER)
         /\ tbeie' = FALSE
         /\ lastIrq' = [tbe |-> TRUE, some |-> TRUE, wake |-> TRUE,
                        parked |-> tx_waker]
    ELSE /\ tbeie' = FALSE
         /\ lastIrq' = [tbe |-> TRUE, some |-> FALSE, wake |-> FALSE,
                        parked |-> tx_waker]
         /\ UNCHANGED <<tx, dataLog, tbe, tx_waker, wWoken>>

\* StateInner::on_interrupt, the TBE branch
UartOnTbe ==
    IF UartPopOne(tx) # 0
    THEN /\ tx' = RingPopDone(tx, 1)
         /\ dataLog' = Append(dataLog, UartPopOne(tx))
         /\ tbe' = FALSE
         /\ tx_waker' = WakerWake(tx_waker)
         /\ wWoken' = (wWoken \/ tx_waker = WRITER)
         /\ lastIrq' = [tbe |-> TRUE, some |-> TRUE, wake |-> TRUE,
                        parked |-> tx_waker]
         /\ UNCHANGED tbeie
    ELSE /\ tbeie' = FALSE
         /\ lastIrq' = [tbe |-> TRUE, some |-> FALSE, wake |-> FALSE,
                        parked |-> tx_waker]
         /\ UNCHANGED <<tx, dataLog, tbe, tx_waker, wWoken>>

\* StateInner::on_interrupt
UartOnInterrupt ==
    /\ unit = "uart"
    /\ UartDeliverable
    /\ IF rbne THEN UartOnRbne ELSE UNCHANGED <<rbne, rx, rx_waker, rWoken, rxAcc>>
    /\ IF tbe THEN UartOnTbe
              ELSE /\ lastIrq' = NoIrq
                   /\ UNCHANGED <<tx, dataLog, tbe, tx_waker, wWoken, tbeie>>
    /\ UNCHANGED <<unit, bauddiv, spi, extiVars, clockVars, rtcVars, wakerVars, dmaVars, rxRead,
                   rdata, uMasked, upc, ul, rop, wop,
                   rxIn>>


\* a task polls its operation when it was just issued or after a wake
UartPollable(op, woken) == op.st = "fresh" \/ (op.st = "pending" /\ woken)
UartIssuable(op) == op.st \in {"none", "ready"}

\* the reading task calls read with a buffer of len bytes
UartRead ==
    /\ UartTaskRuns
    /\ upc = "idle"
    /\ UartIssuable(rop)
    /\ \E len \in 1 .. RingCap :
          rop' = [kind |-> "read", st |-> "fresh", len |-> len, need |-> 0]
    /\ UNCHANGED <<unit, bauddiv, spi, extiVars, clockVars, rtcVars, wakerVars, dmaVars, lastIrq, rxAcc, rxRead,
                   rx, tx, rx_waker, tx_waker, rbne,
                   tbe, rdata, tbeie, uMasked, upc, ul, wop, rWoken, wWoken, rxIn,
                   dataLog>>

\* inner_read's poll enters `with` and calls pop_buf
UartReadEnter ==
    /\ UartTaskRuns
    /\ upc = "idle"
    /\ UartPollable(rop, rWoken)
    /\ rWoken' = FALSE
    /\ uMasked' = UartMasked
    /\ ul' = [who |-> "read", n |-> RingPopBuf(rx), empty |-> FALSE]
    /\ upc' = "r_with"
    /\ UNCHANGED <<unit, bauddiv, spi, extiVars, clockVars, rtcVars, wakerVars, dmaVars, lastIrq, rxAcc, rxRead,
                   rx, tx, rx_waker, tx_waker, rbne,
                   tbe, rdata, tbeie, rop, wop, wWoken, rxIn, dataLog>>

\* inner_read's poll registers when pop_buf found nothing, and leaves `with`
UartReadWith ==
    /\ UartTaskRuns
    /\ upc = "r_with"
    /\ uMasked' = FALSE
    /\ IF ul.n = 0
       THEN /\ rx_waker' = WakerRegister(rx_waker, READER)
            /\ rop' = [rop EXCEPT !.st = "pending"]
            /\ upc' = "idle"
            /\ ul' = UartIdle
       ELSE /\ upc' = "r_copy"
            /\ UNCHANGED <<rx_waker, rop, ul>>
    /\ UNCHANGED <<unit, bauddiv, spi, extiVars, clockVars, rtcVars, wakerVars, dmaVars, lastIrq, rxAcc, rxRead,
                   rx, tx, tx_waker, rbne, tbe, rdata,
                   tbeie, wop, rWoken, wWoken, rxIn, dataLog>>

\* inner_read copying the whole run, whatever the caller's buffer holds
UartReadLenRun(n, buflen) == n
\* inner_read, line 98: `let len = n.min(buf.len())`
UartReadLen(n, buflen) == Min(n, buflen)

\* inner_read's poll copies min(n, buf.len()) bytes out and calls pop_done;
\* the operation keeps the number of bytes it returned in `need`
UartReadCopy ==
    /\ UartTaskRuns
    /\ upc = "r_copy"
    /\ rx' = RingPopDone(rx, UartReadLen(ul.n, rop.len))
    /\ rxRead' = rxRead \o [k \in 1 .. UartReadLen(ul.n, rop.len) |->
                                rx.buf[(rx.tail + k - 1) % RingCap]]
    /\ rop' = [rop EXCEPT !.st = "ready", !.need = UartReadLen(ul.n, rop.len)]
    /\ upc' = "idle"
    /\ ul' = UartIdle
    /\ UNCHANGED <<unit, bauddiv, spi, extiVars, clockVars, rtcVars, wakerVars, dmaVars, lastIrq, rxAcc,
                   tx, rx_waker, tx_waker, rbne, tbe,
                   rdata, tbeie, uMasked, wop, rWoken, wWoken, rxIn, dataLog>>

\* the writing task calls write with the next len bytes
UartWrite ==
    /\ UartTaskRuns
    /\ upc = "idle"
    /\ UartIssuable(wop)
    /\ \E len \in 1 .. RingCap :
          /\ tx.head + len <= MaxTx
          /\ wop' = [kind |-> "write", st |-> "fresh", len |-> len, need |-> 0]
    /\ UNCHANGED <<unit, bauddiv, spi, extiVars, clockVars, rtcVars, wakerVars, dmaVars, lastIrq, rxAcc, rxRead,
                   rx, tx, rx_waker, tx_waker, rbne,
                   tbe, rdata, tbeie, uMasked, upc, ul, rop, rWoken, wWoken, rxIn,
                   dataLog>>

\* inner_write's poll enters `with` and calls push_buf
UartWriteEnter ==
    /\ UartTaskRuns
    /\ upc = "idle"
    /\ wop.kind = "write"
    /\ UartPollable(wop, wWoken)
    /\ wWoken' = FALSE
    /\ uMasked' = UartMasked
    /\ ul' = [who |-> "write", n |-> RingPushBuf(tx), empty |-> FALSE]
    /\ upc' = "w_with"
    /\ UNCHANGED <<unit, bauddiv, spi, extiVars, clockVars, rtcVars, wakerVars, dmaVars, lastIrq, rxAcc, rxRead,
                   rx, tx, rx_waker, tx_waker, rbne,
                   tbe, rdata, tbeie, rop, wop, rWoken, rxIn, dataLog>>

\* inner_write's poll returning Pending on a full buffer without registering
UartWriteWithUnregistered ==
    /\ UartTaskRuns
    /\ upc = "w_with"
    /\ uMasked' = FALSE
    /\ IF ul.n = 0
       THEN /\ wop' = [wop EXCEPT !.st = "pending"]
            /\ upc' = "idle"
            /\ ul' = UartIdle
            /\ UNCHANGED tx_waker
       ELSE /\ upc' = "w_copy"
            /\ UNCHANGED <<tx_waker, wop, ul>>
    /\ UNCHANGED <<unit, bauddiv, spi, extiVars, clockVars, rtcVars, wakerVars, dmaVars, lastIrq, rxAcc,
                   rxRead, rx, tx, rx_waker, rbne, tbe, rdata,
                   tbeie, rop, rWoken, wWoken, rxIn, dataLog>>

\* inner_write's poll registers when push_buf found no room, and leaves `with`
UartWriteWith ==
    /\ UartTaskRuns
    /\ upc = "w_with"
    /\ uMasked' = FALSE
    /\ IF ul.n = 0
       THEN /\ tx_waker' = WakerRegister(tx_waker, WRITER)
            /\ wop' = [wop EXCEPT !.st = "pending"]
            /\ upc' = "idle"
            /\ ul' = UartIdle
       ELSE /\ upc' = "w_copy"
            /\ UNCHANGED <<tx_waker, wop, ul>>
    /\ UNCHANGED <<unit, bauddiv, spi, extiVars, clockVars, rtcVars, wakerVars, dmaVars, lastIrq, rxAcc, rxRead,
                   rx, tx, rx_waker, rbne, tbe, rdata,
                   tbeie, rop, rWoken, wWoken, rxIn, dataLog>>

\* inner_write's poll copying the caller's whole buffer, whatever room
\* push_buf reported
UartWriteCopyAll ==
    /\ UartTaskRuns
    /\ upc = "w_copy"
    /\ tx' = RingPushDone(tx, [k \in 1 .. wop.len |-> tx.head + k])
    /\ upc' = "w_tbeie"
    /\ UNCHANGED <<unit, bauddiv, spi, extiVars, clockVars, rtcVars, wakerVars, dmaVars, lastIrq, rxAcc,
                   rxRead, rx, rx_waker, tx_waker, rbne, tbe,
                   rdata, tbeie, uMasked, ul, rop, wop, rWoken, wWoken, rxIn, dataLog>>

\* inner_write's poll copies min(n, buf.len()) bytes in and calls push_done
UartWriteCopy ==
    /\ UartTaskRuns
    /\ upc = "w_copy"
    /\ tx' = RingPushDone(tx, [k \in 1 .. Min(ul.n, wop.len) |-> tx.head + k])
    /\ upc' = "w_tbeie"
    /\ UNCHANGED <<unit, bauddiv, spi, extiVars, clockVars, rtcVars, wakerVars, dmaVars, lastIrq, rxAcc, rxRead,
                   rx, rx_waker, tx_waker, rbne, tbe,
                   rdata, tbeie, uMasked, ul, rop, wop, rWoken, wWoken, rxIn, dataLog>>

\* inner_write's poll returning without setting TBEIE
UartWriteNoEnable ==
    /\ UartTaskRuns
    /\ upc = "w_tbeie"
    /\ wop' = [wop EXCEPT !.st = "ready", !.need = Min(ul.n, wop.len)]
    /\ upc' = "idle"
    /\ ul' = UartIdle
    /\ UNCHANGED <<unit, bauddiv, spi, extiVars, clockVars, rtcVars, wakerVars, dmaVars, lastIrq, rxAcc,
                   rxRead, rx, tx, rx_waker, tx_waker, rbne, tbeie,
                   tbe, rdata, uMasked, rop, rWoken, wWoken, rxIn, dataLog>>

\* inner_write's poll sets TBEIE and returns Ready(Ok(len))
UartWriteEnable ==
    /\ UartTaskRuns
    /\ upc = "w_tbeie"
    /\ tbeie' = TRUE
    /\ wop' = [wop EXCEPT !.st = "ready", !.need = Min(ul.n, wop.len)]
    /\ upc' = "idle"
    /\ ul' = UartIdle
    /\ UNCHANGED <<unit, bauddiv, spi, extiVars, clockVars, rtcVars, wakerVars, dmaVars, lastIrq, rxAcc, rxRead,
                   rx, tx, rx_waker, tx_waker, rbne,
                   tbe, rdata, uMasked, rop, rWoken, wWoken, rxIn, dataLog>>

\* inner_blocking_write: spin_wait returns once push_buf reports room; the
\* copy, push_done and the setting of TBEIE are those of inner_write
UartBlockingWrite ==
    /\ UartTaskRuns
    /\ upc = "idle"
    /\ UartIssuable(wop)
    /\ RingPushBuf(tx) > 0
    /\ \E len \in 1 .. RingCap :
          /\ tx.head + len <= MaxTx
          /\ wop' = [kind |-> "write", st |-> "fresh", len |-> len, need |-> 0]
    /\ ul' = [who |-> "write", n |-> RingPushBuf(tx), empty |-> FALSE]
    /\ upc' = "w_copy"
    /\ UNCHANGED <<unit, bauddiv, spi, extiVars, clockVars, rtcVars, wakerVars, dmaVars, lastIrq, rxAcc,
                   rxRead, rx, tx, rx_waker, tx_waker, rbne, tbe, rdata, tbeie,
                   uMasked, rop, rWoken, wWoken, rxIn, dataLog>>

\* the writing task calls flush: need is the number of bytes accepted so far,
\* len becomes 1 when a poll of the flush returns Pending
UartFlush ==
    /\ UartTaskRuns
    /\ upc = "idle"
    /\ UartIssuable(wop)
    /\ wop' = [kind |-> "flush", st |-> "fresh", len |-> 0, need |-> tx.head]
    /\ UNCHANGED <<unit, bauddiv, spi, extiVars, clockVars, rtcVars, wakerVars, dmaVars, lastIrq, rxAcc, rxRead,
                   rx, tx, rx_waker, tx_waker, rbne,
                   tbe, rdata, tbeie, uMasked, upc, ul, rop, rWoken, wWoken, rxIn,
                   dataLog>>

\* inner_flush's poll enters `with` and tests the TX buffer
UartFlushEnter ==
    /\ UartTaskRuns
    /\ upc = "idle"
    /\ wop.kind = "flush"
    /\ UartPollable(wop, wWoken)
    /\ wWoken' = FALSE
    /\ uMasked' = UartMasked
    /\ ul' = [who |-> "flush", n |-> 0, empty |-> RingIsEmpty(tx)]
    /\ upc' = "f_with"
    /\ UNCHANGED <<unit, bauddiv, spi, extiVars, clockVars, rtcVars, wakerVars, dmaVars, lastIrq, rxAcc, rxRead,
                   rx, tx, rx_waker, tx_waker, rbne,
                   tbe, rdata, tbeie, rop, wop, rWoken, rxIn, dataLog>>

\* inner_flush resolves at once, whatever the buffer holds
UartFlushReadyAlways(empty) == TRUE
\* inner_flush resolves when the TX buffer was empty
UartFlushReady(empty) == empty

\* inner_flush's poll registers or resolves, and leaves `with`
UartFlushWith ==
    /\ UartTaskRuns
    /\ upc = "f_with"
    /\ uMasked' = FALSE
    /\ IF UartFlushReady(ul.empty)
       THEN /\ wop' = [wop EXCEPT !.st = "ready"]
            /\ UNCHANGED tx_waker
       ELSE /\ tx_waker' = WakerRegister(tx_waker, WRITER)
            /\ wop' = [wop EXCEPT !.st = "pending", !.len = 1]
    /\ upc' = "idle"
    /\ ul' = UartIdle
    /\ UNCHANGED <<unit, bauddiv, spi, extiVars, clockVars, rtcVars, wakerVars, dmaVars, lastIrq, rxAcc, rxRead,
                   rx, tx, rx_waker, rbne, tbe, rdata,
                   tbeie, rop, rWoken, wWoken, rxIn, dataLog>>

NextUart ==
    \/ UartHwRx
    \/ UartHwTxShift
    \/ UartOnInterrupt
    \/ UartRead
    \/ UartReadEnter
    \/ UartReadWith
    \/ UartReadCopy
    \/ UartWrite
    \/ UartWriteEnter
    \/ UartWriteWith
    \/ UartWriteCopy
    \/ UartWriteEnable
    \/ UartBlockingWrite
    \/ UartFlush
    \/ UartFlushEnter
    \/ UartFlushWith

InitUartUnit ==
    /\ unit = "uart"
    /\ InitClock
    /\ InitRtcHw
    /\ rtcTime = 0
    /\ ts = 0
    /\ InitIO

SpecUart == InitUartUnit /\ [][NextUart]_vars

\* The UART with its scheduling: the transmitter shifts out the byte it was
\* given; a requested, unmasked interrupt is taken; the executor polls a
\* woken task, and a poll that has begun runs to its end.
UartFairness ==
    /\ WF_vars(UartHwTxShift)
    /\ WF_vars(UartOnInterrupt)
    /\ WF_vars(UartReadWith)
    /\ WF_vars(UartReadCopy)
    /\ WF_vars(UartWriteWith)
    /\ WF_vars(UartWriteCopy)
    /\ WF_vars(UartWriteEnable)
    /\ WF_vars(UartFlushEnter)
    /\ WF_vars(UartFlushWith)

SpecUartLive == InitUartUnit /\ [][NextUart]_vars /\ UartFairness

\* the asynchronous peripherals together
SpecIO == (InitDmaUnit \/ InitUartUnit) /\ [][NextDma \/ NextUart]_vars


\* =========================================================== baud divider
\* calc_bauddiv (usart/mod.rs).  The arguments stay below the values at which
\* the u32 sums of the function wrap.
Oversample == {"SixteenTimes", "EightTimes"}

\* the clock and the baud rates of the unit tests
TestPclk == 32000000
TestBauds == {115200, 900}

\* the `as u16` of the result
U16 == 65536

\* calc_bauddiv, the match: the u32 value `div`
CalcDiv(pclk, baud, oversample) ==
    IF oversample = "SixteenTimes"
    THEN (pclk + baud \div 2) \div baud
    ELSE ((pclk + baud \div 2) * 2) \div baud

\* calc_bauddiv
calc_bauddiv(pclk, baud, oversample) == CalcDiv(pclk, baud, oversample) % U16

\* a caller computes the divider for its clock and baud rate
CalcBauddiv ==
    /\ unit = "baud"
    /\ bauddiv.div = -1
    /\ bauddiv' = [bauddiv EXCEPT
                      !.div = calc_bauddiv(bauddiv.pclk, bauddiv.baud,
                                           bauddiv.oversample)]
    /\ UNCHANGED <<unit, spi, extiVars, clockVars, rtcVars, ioVars>>

NextBaud == CalcBauddiv

InitBaud ==
    /\ unit = "baud"
    /\ InitClock
    /\ InitRtcHw
    /\ rtcTime = 0
    /\ ts = 0
    /\ InitDma
    /\ InitUart
    /\ InitWaker
    /\ InitExti
    /\ level = [l \in Lines |-> FALSE]
    /\ spi = NoSpi
    /\ \E pclk \in (1 .. MaxPclk) \cup {TestPclk},
          baud \in (1 .. MaxBaud) \cup TestBauds, oversample \in Oversample :
          bauddiv = [pclk |-> pclk, baud |-> baud, oversample |-> oversample,
                     div |-> -1]

SpecBaud == InitBaud /\ [][NextBaud]_vars

\* ================================================================== EXTI
\* the pin of line l changes its level: an edge of an enabled kind sets the
\* pending flag.  No handler for the EXTI interrupts exists in the crate and
\* nothing enables them in the NVIC, so a pending line runs no code.
ExtiPinChange(l) ==
    /\ unit = "exti"
    /\ level' = [level EXCEPT ![l] = ~@]
    /\ LET rising == ~level[l]
       IN  /\ pd' = [pd EXCEPT ![l] = @ \/ (IF rising THEN rten[l] ELSE ften[l])]
           /\ rose' = [rose EXCEPT ![l] =
                          @ \/ (rising /\ efut[l] \in {"fresh", "pending"})]
    /\ UNCHANGED <<unit, bauddiv, spi, inten, rten, ften, EXTI_WAKERS, efut, epc,
                   clockVars, rtcVars, ioVars>>

\* wait_for_rising_edge: ExtiInputFuture::new(pin, port, true, false), one
\* critical section: INTEN and RTEN of the line set, FTEN cleared, the
\* pending flag cleared
ExtiInputFutureNew(l) ==
    /\ unit = "exti"
    /\ efut[l] \in {"none", "ready"}
    /\ inten' = [inten EXCEPT ![l] = TRUE]
    /\ rten' = [rten EXCEPT ![l] = TRUE]
    /\ ften' = [ften EXCEPT ![l] = FALSE]
    /\ pd' = [pd EXCEPT ![l] = FALSE]
    /\ efut' = [efut EXCEPT ![l] = "fresh"]
    /\ rose' = [rose EXCEPT ![l] = FALSE]
    /\ UNCHANGED <<unit, bauddiv, spi, level, EXTI_WAKERS, epc, clockVars, rtcVars,
                   ioVars>>

\* ExtiInputFuture::poll, line 110: the task's waker is registered
ExtiPollRegister(l) ==
    /\ unit = "exti"
    /\ efut[l] \in {"fresh", "pending"}
    /\ epc[l] = "idle"
    /\ EXTI_WAKERS' = [EXTI_WAKERS EXCEPT ![l] = TRUE]
    /\ epc' = [epc EXCEPT ![l] = "inten"]
    /\ UNCHANGED <<unit, bauddiv, spi, inten, rten, ften, pd, level, efut, rose,
                   clockVars, rtcVars, ioVars>>

\* ExtiInputFuture::poll, line 113: `if (inten & v) == 0`
ExtiPollReady(bit) == ~bit

\* ExtiInputFuture::poll, lines 112-117: INTEN is read and decides
ExtiPollFinish(l) ==
    /\ unit = "exti"
    /\ epc[l] = "inten"
    /\ efut' = [efut EXCEPT ![l] =
                   IF ExtiPollReady(inten[l]) THEN "ready" ELSE "pending"]
    /\ epc' = [epc EXCEPT ![l] = "idle"]
    /\ UNCHANGED <<unit, bauddiv, spi, inten, rten, ften, pd, level, EXTI_WAKERS,
                   rose, clockVars, rtcVars, ioVars>>

NextExti ==
    \/ \E l \in Lines : ExtiPinChange(l)
    \/ \E l \in Lines : ExtiInputFutureNew(l)
    \/ \E l \in Lines : ExtiPollRegister(l)
    \/ \E l \in Lines : ExtiPollFinish(l)

InitExtiUnit ==
    /\ unit = "exti"
    /\ InitClock
    /\ InitRtcHw
    /\ rtcTime = 0
    /\ ts = 0
    /\ InitDma /\ InitUart /\ InitWaker /\ bauddiv = NoBauddiv
    /\ InitExti
    /\ level \in [Lines -> BOOLEAN]
    /\ spi = NoSpi

\* The lines with their scheduling: the executor polls a future again and
\* again, woken or not, and a poll that has begun runs to its end.  Pin
\* changes are the environment's choice.
ExtiFairness ==
    \A l \in Lines : WF_vars(ExtiPollRegister(l)) /\ WF_vars(ExtiPollFinish(l))

SpecExtiLive == InitExtiUnit /\ [][NextExti]_vars /\ ExtiFairness

\* =================================================================== SPI
Prescaler == {"DIV2", "DIV4", "DIV8", "DIV16", "DIV32", "DIV64", "DIV128",
              "DIV256"}

\* the divider a Prescaler stands for (ClockDivider::divide)
PrescalerDivider(val) ==
    CASE val = "DIV2" -> 2 [] val = "DIV4" -> 4 [] val = "DIV8" -> 8
      [] val = "DIV16" -> 16 [] val = "DIV32" -> 32 [] val = "DIV64" -> 64
      [] val = "DIV128" -> 128 [] val = "DIV256" -> 256

\* `lo..=hi` as a match pattern
InRange(r, lo, hi) == lo <= r /\ r <= hi

\* compute_baud_rate: the match on pclk.0 / target.0, the first arm that
\* matches is taken; unreachable!() panics
compute_baud_rate(pclk, target) ==
    LET r == pclk \div target
    IN  IF r = 0 THEN "panic"
        ELSE IF InRange(r, 1, 2) THEN "DIV2"
        ELSE IF InRange(r, 3, 4) THEN "DIV4"
        ELSE IF InRange(r, 6, 8) THEN "DIV8"
        ELSE IF InRange(r, 7, 16) THEN "DIV16"
        ELSE IF InRange(r, 17, 32) THEN "DIV32"
        ELSE IF InRange(r, 33, 64) THEN "DIV64"
        ELSE IF InRange(r, 65, 128) THEN "DIV128"
        ELSE IF InRange(r, 129, 256) THEN "DIV256"
        ELSE "panic"

\* Spi::new, line 185: `let prescaler = compute_baud_rate(pclk, config.target_baud)`
ComputeBaudRate ==
    /\ unit = "spi"
    /\ spi.val = "none"
    /\ spi' = [spi EXCEPT !.val = compute_baud_rate(spi.pclk, spi.target)]
    /\ UNCHANGED <<unit, bauddiv, extiVars, clockVars, rtcVars, ioVars>>

NextSpi == ComputeBaudRate

InitSpi ==
    /\ unit = "spi"
    /\ InitClock
    /\ InitRtcHw
    /\ rtcTime = 0
    /\ ts = 0
    /\ InitDma /\ InitUart /\ InitWaker /\ bauddiv = NoBauddiv
    /\ InitExti
    /\ level = [l \in Lines |-> FALSE]
    /\ \E pclk \in 1 .. MaxSpiPclk, target \in 1 .. MaxSpiTarget :
          spi = [pclk |-> pclk, target |-> target, val |-> "none"]

SpecSpi == InitSpi /\ [][NextSpi]_vars

\* ------------------------------------------------ both clock drivers
\* a firmware image runs one of the two time drivers
SpecClock == (InitSystick \/ InitRtc) /\ [][NextSystick \/ NextRtc]_vars

\* ------------------------------------------------ now() under the clock
\* the task only reads the clock, while the clock runs and its interrupt is served
NextNow ==
    \/ SystickTick
    \/ SystickTaskNow
    \/ RtcTick
    \/ RtcTaskNow
    \/ RtcTaskReadTimeWrite
    \/ RtcTaskReadCnth
    \/ RtcTaskNowReturn
    \/ RtcIrqEnter
    \/ RtcIrqCtlWrite
    \/ RtcIrqReadTimeWrite
    \/ RtcIrqReadCnth
    \/ RtcIrqScan
    \/ RtcIrqReturn

SpecNow == (InitSystick \/ InitRtc) /\ [][NextNow]_vars

\* ------------------------------------------------ the end-to-end scenario
\* One task on the SysTick driver: allocate one alarm, store cb_plain with its
\* context, arm it 100 ticks ahead, then let the clock run.
ScenarioAllocate ==
    /\ alarm_count = 0
    /\ SystickAllocateAlarm

ScenarioCallback ==
    /\ alarm_count = 1
    /\ nCb = 0
    /\ SystickSetAlarmCallback(0, "cb_plain", 1)

ScenarioArm ==
    /\ nCb = 1
    /\ nArm = 0
    /\ SystickSetAlarm(0, SystickNow + 100)

ScenarioTick ==
    /\ lastSet.ret
    /\ SystickTickUpTo(101)

NextScenario ==
    \/ ScenarioAllocate
    \/ ScenarioCallback
    \/ ScenarioArm
    \/ SystickSetAlarmStore1
    \/ SystickSetAlarmStore2
    \/ ScenarioTick

InitScenario ==
    /\ InitIO
    /\ unit = "systick"
    /\ InitClock
    /\ InitRtcHw
    /\ rtcTime = 0
    /\ ts = 0

SpecScenario == InitScenario /\ [][NextScenario]_vars

\* ============================================================ properties
\* the time the clock shows
ClockNow == IF unit = "rtc" THEN rtcTime ELSE ts

\* the task is between two driver calls and no handler runs or is due
Quiescent ==
    /\ tpc = "idle"
    /\ unit = "rtc" => (ipc = "idle" /\ ~RtcDeliverable)

\* ALARM_COUNT of the driver in use
Capacity == IF unit = "rtc" THEN RTC_ALARM_COUNT ELSE SYSTICK_ALARM_COUNT

\* C2: for every set_alarm(h, t) that returned true while the clock was still
\* before t, with a callback stored for h: once the clock shows t or more
\* (and no driver code is running or due) the callback has been invoked
\* exactly once for that arming -- never twice, and not zero times.
C2_FiresExactlyOnce ==
    \A h \in Allocated :
        alarms[h].callback # NULL =>
            /\ gh[h].fires <= 1
            /\ (gh[h].done /\ gh[h].inTime /\ Quiescent /\ ClockNow >= gh[h].armT)
                   => gh[h].fires = 1

\* C3: a now() call of the task never returns less than the call before it.
C3_NowMonotonic == [][lastNow' >= lastNow]_vars

\* C4: the handles allocate_alarm has returned are pairwise distinct and below
\* ALARM_COUNT, the allocation count is their number and never exceeds
\* ALARM_COUNT, and None is returned only once ALARM_COUNT handles are out.
C4_AllocateDistinct ==
    /\ alarm_count <= Capacity
    /\ Len(issued) = alarm_count
    /\ \A i, j \in 1 .. Len(issued) : i # j => issued[i] # issued[j]
    /\ \A i \in 1 .. Len(issued) : issued[i] \in 0 .. (Capacity - 1)
    /\ lastAlloc >= 0 => lastAlloc = issued[Len(issued)]
    /\ lastAlloc = -1 => alarm_count = Capacity

\* the RTC driver has handed out its 3 handles, then returned None, with the
\* clock interrupt served in between
C4_Witness ==
    /\ unit = "rtc"
    /\ lastAlloc = -1
    /\ Len(issued) = RTC_ALARM_COUNT
    /\ ticks > 0
    /\ period > 0

\* C5: a set_alarm(h, t) call of the task whose t is not after the now() it
\* read returns false, and the step in which it returns changes no slot and
\* invokes no callback; a call that returns true had t after that now().
C5_PastRejected ==
    [][(lastSet'.n # lastSet.n /\ lastSet'.past)
          => (~lastSet'.ret /\ alarms' = alarms /\ gh' = gh)]_vars

\* a set_alarm on an armed slot was rejected after the clock had advanced
C5_Witness ==
    /\ lastSet.n = 2
    /\ lastSet.past
    /\ ~lastSet.ret
    /\ ticks > 0
    /\ \E h \in Allocated : alarms[h].ts # U64_MAX

\* C6: whenever a callback was invoked, its slot's deadline was MAX when it
\* started; a deadline that the callback stored with set_alarm on its own
\* handle is still in the slot when the handler returns; and such a deadline
\* is never fired twice.
C6_FiredSlotInactive ==
    \A h \in Slots :
        /\ gh[h].sawTs = U64_MAX
        /\ gh[h].kept
        /\ gh[h].byCb => gh[h].fires <= 1

\* a deadline stored by the callback has fired, and the handler has returned
C6_Witness ==
    /\ Quiescent
    /\ \E h \in Allocated : gh[h].cbFired /\ gh[h].kept /\ gh[h].sawTs = U64_MAX

\* C7: in the scenario, 50 ticks after the alarm was armed for now()+100 no
\* callback has been invoked, and 100 ticks after it the callback has been
\* invoked exactly once, with the stored context.
C7_Scenario ==
    /\ (lastSet.ret /\ ticks = 50) => gh[0].fires = 0
    /\ (lastSet.ret /\ ticks = 100) => (gh[0].fires = 1 /\ gh[0].lastCtx = alarms[0].ctx)


\* C16: the interrupt handler has never invoked a callback for a slot in which
\* it found the deadline MAX (a slot never armed, or fired and not re-armed),
\* and a slot that holds MAX is not due at any time the clock can show.
C16_InactiveNeverFires ==
    /\ \A h \in Slots : ~gh[h].idleFired
    /\ \A h \in Slots :
          alarms[h].ts = U64_MAX
              => (~SystickDue(alarms[h], ClockNow) /\ ~RtcDue(alarms[h], ClockNow))

\* one slot was armed, has fired and holds MAX again; a second allocated slot
\* with a callback was never armed and has not fired
C16_Witness ==
    /\ Quiescent
    /\ nArm = 1
    /\ \E h, k \in Allocated :
          /\ h # k
          /\ gh[h].fires = 1
          /\ alarms[h].ts = U64_MAX
          /\ alarms[k].callback # NULL
          /\ alarms[k].ts = U64_MAX
          /\ gh[k].fires = 0


\* C17: while the task is part-way through a write to an alarm slot or inside
\* the section in which it updates the RTC period counter, the interrupt that
\* reads them cannot run: between the two word stores of the SysTick
\* set_alarm no SysTick interrupt is possible, and inside the RTC driver's
\* critical section the RTC handler cannot start.
C17_TaskWritesMasked ==
    /\ (unit = "systick" /\ tpc = "sa_store2") => ~ENABLED SystickTick
    /\ (unit = "rtc" /\ TaskInCS) => ~ENABLED RtcIrqEnter


\* the least deadline over the allocated slots of table al, MAX if there is none
MinDeadline(al) ==
    LET S == {al[h].ts : h \in Allocated} \cup {U64_MAX}
    IN  CHOOSE m \in S : \A x \in S : m <= x

\* C18: once set_alarm has returned true and no driver code is running or due,
\* no armed deadline lies at or before the time the RTC shows: by the time the
\* clock reaches the nearest deadline an interrupt has been delivered.
C18_InterruptByDeadline ==
    (unit = "rtc" /\ Quiescent /\ lastSet.ret) =>
        \A h \in Allocated : alarms[h].ts = U64_MAX \/ alarms[h].ts > rtcTime

\* C19: when the RTC driver's set_alarm returns true and when its interrupt
\* handler returns, the alarm register holds the low word of the least
\* deadline over the allocated slots (all ones when no slot is armed).
C19_AlarmRegister ==
    [][(unit = "rtc" /\ ((tpc = "sa_store" /\ tpc' = "idle")
                            \/ (ipc = "h_alrm" /\ ipc' = "idle")))
          => alrm' = Lo(MinDeadline(alarms'))]_vars

\* set_alarm has returned true, two slots are armed for different deadlines
\* and the register holds the earlier one
C19_Witness ==
    /\ unit = "rtc"
    /\ Quiescent
    /\ lastSet.ret
    /\ alarm_count >= 2
    /\ alarms[0].ts < alarms[1].ts
    /\ alarms[1].ts # U64_MAX
    /\ alrm = Lo(alarms[0].ts)

\* ---------------------------------------------------------------------------
\* Properties of the asynchronous peripherals
\* ---------------------------------------------------------------------------

\* the task of the DMA Transfer is parked: its poll returned Pending, it is
\* not being polled and no wake has been issued since that poll began
DmaParked == dfut = "pending" /\ dpc = "idle" /\ ~dwoken
\* the same for the reading task and for the writing task of the UART
UartReadParked == rop.st = "pending" /\ ul.who # "read" /\ ~rWoken
UartWriteParked == wop.st = "pending" /\ ul.who \notin {"write", "flush"} /\ ~wWoken

\* C1: no lost wakeup.  A DMA poll that returned Pending found the signal clear
\* and left the task's waker registered; while a task is parked on a Transfer,
\* a UART read, write or flush, its waker is registered and its condition
\* (signal raised; RX buffer not empty; TX buffer not full; TX buffer empty)
\* is false: the interrupt that makes the condition true issues the wake.
C1_NoLostWakeup ==
    /\ (unit = "dma" /\ lastPoll.res = "pending")
          => (~lastPoll.sig /\ lastPoll.reg = TASK)
    /\ (unit = "dma" /\ DmaParked) => (~dsignal /\ dwaker = TASK)
    /\ (unit = "uart" /\ UartReadParked)
          => (RingIsEmpty(rx) /\ rx_waker = READER)
    /\ (unit = "uart" /\ UartWriteParked /\ wop.kind = "write")
          => (RingIsFull(tx) /\ tx_waker = WRITER)
    /\ (unit = "uart" /\ UartWriteParked /\ wop.kind = "flush")
          => (~RingIsEmpty(tx) /\ tx_waker = WRITER)

\* a Transfer whose poll returned Pending was woken by the channel interrupt
C1_Witness ==
    /\ unit = "dma"
    /\ lastPoll.res = "pending"
    /\ dfut = "pending"
    /\ dwoken
    /\ dsignal

\* C8: a poll that begins after the hardware raised the channel's
\* transfer-complete flag returns Ready(Ok(())); a poll that begins while
\* neither completion nor error has occurred returns Pending and leaves the
\* caller's waker in the channel state.
C8_PollResult ==
    (unit = "dma" /\ lastPoll.n > 0) =>
        /\ lastPoll.tc => lastPoll.res = "ok"
        /\ (~lastPoll.tc /\ lastPoll.hw # "error")
              => (lastPoll.res = "pending" /\ lastPoll.reg = TASK)

\* a Transfer was polled before completion (Pending) and again after it (Ok)
C8_Witness ==
    /\ unit = "dma"
    /\ lastPoll.prev = "pending"
    /\ lastPoll.res = "ok"
    /\ lastPoll.tc
    /\ lastPoll.hw = "done"

\* C9: a poll that begins after the hardware raised the channel's error flag
\* for the transfer returns Ready(Err(TransferError)).
C9_ErrorReported ==
    (unit = "dma" /\ lastPoll.n > 0 /\ lastPoll.hw = "error") => lastPoll.res = "err"

\* the bytes 1 .. n in order
Upto(n) == [i \in 1 .. n |-> i]

\* C10: the bytes written to the data register followed by the bytes in the TX
\* ring buffer are exactly the bytes accepted by write, in order; the data
\* register receives at most one byte per step, the next one, and only from
\* the interrupt handler; a flush has resolved only when every byte accepted
\* before it was issued has been taken out of the buffer.
C10_TxFifoFlush ==
    [][/\ dataLog' \o RingContent(tx') = Upto(tx'.head)
       /\ dataLog' # dataLog
             => (UartDeliverable /\ dataLog' = Append(dataLog, Len(dataLog) + 1))
       /\ (wop'.kind = "flush" /\ wop'.st = "ready") => tx'.tail >= wop'.need
      ]_vars

\* a flush issued after MaxTx bytes were accepted returned Pending, and has
\* resolved with those bytes gone to the data register in order
C10_Witness ==
    /\ unit = "uart"
    /\ wop.kind = "flush"
    /\ wop.st = "ready"
    /\ wop.need = MaxTx
    /\ wop.len = 1
    /\ dataLog = Upto(MaxTx)

Increasing(q) == \A i, j \in 1 .. Len(q) : i < j => q[i] < q[j]

\* C12: a handler run that finds RBNE set and the RX buffer full leaves the
\* buffered bytes and their order as they were and accepts nothing; the bytes
\* the reads have returned, followed by the bytes still buffered, are exactly
\* the accepted bytes, and these are in arrival order.
C12_RxRejectFifo ==
    [][/\ (UartDeliverable /\ rbne /\ ~rbne' /\ RingIsFull(rx)) =>
              /\ RingContent(rx') = RingContent(rx)
              /\ rx'.head = rx.head
              /\ rxAcc' = rxAcc
       /\ (UartDeliverable /\ rbne /\ ~rbne' /\ ~RingIsFull(rx)) =>
              /\ RingContent(rx') = Append(RingContent(rx), rdata)
              /\ rxAcc' = Append(rxAcc, rdata)
       /\ rxRead' \o RingContent(rx') = rxAcc'
       /\ Increasing(rxAcc')
      ]_vars

\* the third byte reached the data register, was read by the handler and
\* rejected by the full buffer; the reads then returned the first two
C12_Witness ==
    /\ unit = "uart"
    /\ rxIn = 3
    /\ rdata = 3
    /\ ~rbne
    /\ rxAcc = <<1, 2>>
    /\ rxRead = <<1, 2>>

\* ---------------------------------------------------------------------------
\* Properties of the waker slot
\* ---------------------------------------------------------------------------

\* the step registers waker w
RegisterStep(w) ==
    wlast'.op = "register" /\ wlast'.w = w /\ wlast'.before = wslot
\* the step signals the slot
SignalStep == wlast'.op = "signal" /\ wlast'.before = wslot

C14_WakerIdempotent ==
    [][/\ \A w \in Wakers :
             (RegisterStep(w) /\ wslot = w) => (wslot' = w /\ wakes' = wakes)
       /\ (SignalStep /\ wslot = NULL) => (wslot' = NULL /\ wakes' = wakes)
       /\ (SignalStep /\ wslot # NULL)
             => /\ wslot' = NULL
                /\ wakes' = [wakes EXCEPT ![wslot] = wakes[wslot] + 1]
      ]_vars

\* task t1 registered twice, was signalled, and has been woken once
C14_Witness ==
    /\ unit = "waker"
    /\ wlast.op = "signal"
    /\ wlast.regs = 2
    /\ wlast.before = "t1"
    /\ wslot = NULL
    /\ wakes = [t \in Wakers |-> IF t = "t1" THEN 1 ELSE 0]

\* C15: a signal that finds no registered waker is not lost.  The first poll
\* of a Transfer whose completion interrupt has already been served returns
\* Ready; a read poll that finds bytes, a write poll that finds room and a
\* flush poll that finds the TX buffer empty complete in that poll, whether
\* or not the interrupt found a waker to wake.
C15_SignalBeforeRegister ==
    [][/\ (dpc = "poll" /\ dpc' = "idle" /\ dfut = "fresh" /\ dl.tc)
              => dfut' = "ready"
       /\ (upc = "r_with" /\ upc' # upc /\ ~RingIsEmpty(rx)) => upc' = "r_copy"
       /\ (upc = "r_copy" /\ upc' # upc) => rop'.st = "ready"
       /\ (upc = "w_with" /\ upc' # upc /\ ~RingIsFull(tx)) => upc' = "w_copy"
       /\ (upc = "w_copy" /\ upc' # upc) => upc' = "w_tbeie"
       /\ (upc = "w_tbeie" /\ upc' # upc) => wop'.st = "ready"
       /\ (upc = "f_with" /\ upc' # upc /\ RingIsEmpty(tx)) => wop'.st = "ready"
      ]_vars

\* the channel interrupt ran before the Transfer was ever polled, and the
\* first poll returned Ready(Ok(()))
C15_Witness ==
    /\ unit = "dma"
    /\ nStart = 1
    /\ lastPoll.n = 1
    /\ lastPoll.tc
    /\ lastPoll.res = "ok"
    /\ ~dwoken

\* C20: a flush that has returned Pending and whose TX buffer the interrupt
\* has since emptied is eventually polled again and returns Ready(Ok(())).
C20_FlushResolves ==
    (wop.kind = "flush" /\ wop.st = "pending" /\ RingIsEmpty(tx))
        ~> (wop.kind = "flush" /\ wop.st = "ready")

\* the interrupt has taken the last byte out of the buffer and woken the task
\* parked in flush
C20_Witness ==
    /\ unit = "uart"
    /\ wop.kind = "flush"
    /\ wop.st = "pending"
    /\ upc = "idle"
    /\ RingIsEmpty(tx)
    /\ wWoken
    /\ tx_waker = NULL

\* -------------------------------------------------------------- TX-ready
\* on_interrupt runs its TBE branch
TbeStep == UartOnInterrupt /\ tbe

\* on_interrupt's TBE branch pops exactly one byte into USART_DATA
PopsOne ==
    /\ tx'.tail = tx.tail + 1
    /\ tx'.head = tx.head
    /\ dataLog' = Append(dataLog, RingContent(tx)[1])

\* C21 as stated: on a TX-ready interrupt with a non-empty TX ring buffer
\* exactly one byte is popped and written to the data register; with an empty
\* TX ring buffer the handler disables the TX-ready interrupt and signals the
\* TX waker.
C21_EmptySignals ==
    [][TbeStep => IF ~RingIsEmpty(tx)
                  THEN PopsOne
                  ELSE tbeie' = FALSE /\ lastIrq'.wake]_vars

\* C21 amended: on a TX-ready interrupt with a non-empty TX ring buffer exactly
\* one byte is popped and written to the data register and the TX waker is
\* signalled; with an empty TX ring buffer the handler only disables the
\* TX-ready interrupt: it does not signal the TX waker, which holds no waker
\* then.
C21_TxReady ==
    [][TbeStep => IF ~RingIsEmpty(tx)
                  THEN /\ PopsOne
                       /\ lastIrq'.wake
                       /\ tx_waker' = NULL
                       /\ tx_waker = WRITER => wWoken'
                       /\ tbeie' = tbeie
                  ELSE /\ tbeie' = FALSE
                       /\ ~lastIrq'.wake
                       /\ tx_waker = NULL
                       /\ tx' = tx
                       /\ dataLog' = dataLog]_vars

\* the handler has sent bytes, then found the TX buffer empty and disabled
\* the TX-ready interrupt
C21_Witness ==
    /\ unit = "uart"
    /\ lastIrq.tbe
    /\ ~lastIrq.some
    /\ Len(dataLog) > 0
    /\ RingIsEmpty(tx)
    /\ ~tbeie

\* the task is between inner_write's entry into `with` and its return
InWrite == upc \in {"w_with", "w_copy", "w_tbeie"}

\* C22: in every reachable state in which the task is not in the middle of a
\* write, a non-empty TX ring buffer implies that the TX-ready interrupt is
\* enabled.
C22_TxNonEmptyEnabled ==
    (unit = "uart" /\ ~InWrite /\ ~RingIsEmpty(tx)) => tbeie

\* the handler found the TX buffer empty and disabled the TX-ready interrupt;
\* a later write has appended bytes and returned
C22_Witness ==
    /\ unit = "uart"
    /\ lastIrq.tbe
    /\ ~lastIrq.some
    /\ Len(dataLog) > 0
    /\ upc = "idle"
    /\ wop.kind = "write"
    /\ wop.st = "ready"
    /\ ~RingIsEmpty(tx)
    /\ tbeie

\* ------------------------------------------------------- dropped transfers
\* the channel's registers and its ChannelState
DmaChannel == <<chen, ftfie, ftfif, errif, dIrqEn, xfer, dsignal, dwaker>>

\* C23: dropping a Transfer before completion changes neither the channel's
\* hardware registers nor its ChannelState; the hardware transfer keeps
\* running (the channel stays enabled with its completion interrupt), and the
\* completion interrupt taken after the drop sets the channel's signal.
C23_DropKeepsChannel ==
    [][/\ DmaDrop => UNCHANGED DmaChannel
       /\ (dfut' = "dropped" /\ xfer' = "running") => (chen' /\ ftfie' /\ dIrqEn')
       /\ (dfut = "dropped" /\ DMA0_CHANNEL0) => dsignal']_vars

\* a transfer was dropped while the hardware was running; the hardware has
\* finished it since and the completion interrupt has set the signal
C23_Witness ==
    /\ unit = "dma"
    /\ dfut = "dropped"
    /\ xfer = "done"
    /\ dRaised
    /\ ~ftfif
    /\ dsignal

\* ---------------------------------------------------------- RTC overflows
\* overflows of the RTC counter since boot
Overflows == rtcTime \div Word

\* C24: each overflow of the RTC counter increases period by exactly one, none
\* lost and none counted twice, whoever observes the overflow flag first and
\* however the flag-clearing register updates interleave with the hardware:
\* period, plus one while the flag of an overflow not yet counted is set, is
\* the number of overflows.
C24_OverflowCounted ==
    unit = "rtc" => period + (IF ovif THEN 1 ELSE 0) = Overflows

C26_RingRoles ==
    [][/\ rx'.head # rx.head => UartOnInterrupt
       /\ rx'.tail # rx.tail => UartReadCopy
       /\ tx'.head # tx.head => UartWriteCopy
       /\ tx'.tail # tx.tail => UartOnInterrupt
       /\ rx'.head >= rx.head /\ rx'.tail >= rx.tail
       /\ tx'.head >= tx.head /\ tx'.tail >= tx.tail
       /\ 0 <= RingLen(rx') /\ RingLen(rx') <= RingCap
       /\ 0 <= RingLen(tx') /\ RingLen(tx') <= RingCap]_vars

\* both buffers are full after bytes have been popped from each of them
C26_Witness ==
    /\ unit = "uart"
    /\ RingIsFull(rx)
    /\ rx.tail > 0
    /\ RingIsFull(tx)
    /\ tx.tail > 0

\* ----------------------------------------------------------- baud divider
\* d is a / b rounded to the nearest integer (either neighbour on a tie)
IsNearest(d, a, b) == 2 * (d * b - a) <= b /\ 2 * (a - d * b) <= b

\* the quotient the call is to approximate
BaudQuotient ==
    IF bauddiv.oversample = "SixteenTimes" THEN bauddiv.pclk
                                           ELSE 2 * bauddiv.pclk

\* the call is one of the unit tests
BaudTest(baud, oversample) ==
    /\ bauddiv.pclk = TestPclk
    /\ bauddiv.baud = baud
    /\ bauddiv.oversample = oversample

\* C27: for every pclk and baud whose quotient fits in 16 bits, calc_bauddiv
\* with SixteenTimes returns pclk/baud rounded to the nearest integer and with
\* EightTimes 2*pclk/baud rounded to the nearest integer; 32 MHz / 115200
\* gives 17 + 6/16 and 34 + 12/16, 32 MHz / 900 gives 2222 + 4/16.
C27_BauddivNearest ==
    (unit = "baud" /\ bauddiv.div # -1
        /\ BaudQuotient \div bauddiv.baud < U16 - 1)
    => /\ IsNearest(bauddiv.div, BaudQuotient, bauddiv.baud)
       /\ BaudTest(115200, "SixteenTimes")
             => (bauddiv.div \div 16 = 17 /\ bauddiv.div % 16 = 6)
       /\ BaudTest(115200, "EightTimes")
             => (bauddiv.div \div 16 = 34 /\ bauddiv.div % 16 = 12)
       /\ BaudTest(900, "SixteenTimes")
             => (bauddiv.div \div 16 = 2222 /\ bauddiv.div % 16 = 4)

\* ---------------------------------------------------- set_alarm_callback
\* the step invokes the callback of slot h
Invoked(h) ==
    \/ gh'[h].fires > gh[h].fires
    \/ gh'[h].lastCtx # gh[h].lastCtx
    \/ (gh[h].armT # U64_MAX /\ gh'[h].armT = U64_MAX)

\* C28: set_alarm_callback(h, f, ctx) changes only the callback and context of
\* slot h: the deadline of h and every field of every other slot are
\* unchanged, and no other operation changes a callback or a context; when h
\* fires, the callback is invoked with the ctx stored in slot h, the one most
\* recently stored for h.
C28_CallbackFrame ==
    [][/\ nCb' # nCb
            => /\ \E h \in Allocated :
                     /\ alarms'[h].ts = alarms[h].ts
                     /\ \A s \in Slots \ {h} : alarms'[s] = alarms[s]
               /\ UNCHANGED <<alarm_count, ts, period, alrm, gh>>
       /\ \A h \in Slots :
             /\ (alarms'[h].callback # alarms[h].callback
                   \/ alarms'[h].ctx # alarms[h].ctx) => nCb' = nCb + 1
             /\ Invoked(h) => gh'[h].lastCtx = alarms[h].ctx]_vars

\* two handles are allocated; both set_alarm_callback calls were for handle
\* 0, whose alarm was armed and has fired with the context the slot holds;
\* slot 1 is as allocated
C28_Witness ==
    /\ alarm_count = 2
    /\ nCb = 2
    /\ alarms[1].callback = NULL
    /\ alarms[0].callback = "cb_plain"
    /\ gh[0].fires = 1
    /\ gh[0].lastCtx = 1
    /\ lastSet.ret
    /\ lastSet.n = 1

\* ------------------------------------------------------ stale completions
\* C29: a Transfer future returns Ready(Ok(())) only after the hardware
\* transfer it was created for has finished; a completion interrupt that
\* belongs to an earlier transfer on the channel never completes it.
C29_OkOnlyAfterOwnCompletion ==
    (unit = "dma" /\ lastPoll.res = "ok") => lastPoll.hw = "done"

\* C30: every Transfer future whose task polls it when it is new and again
\* whenever it is woken eventually resolves once the hardware transfer has
\* ended, by completion or by a transfer error (unless the task gives it up
\* by dropping it or starting another transfer).
C30_TransferResolves ==
    (unit = "dma" /\ dfut \in {"fresh", "pending"} /\ xfer \in {"done", "error"})
        ~> (dfut \in {"ready", "dropped", "none"})

\* ------------------------------------------------------------ early fires
\* C31: a callback is never invoked early: whenever the interrupt handler
\* invokes the callback of a slot armed with deadline t, now() >= t at that
\* moment, in both clock drivers and under every interleaving of set_alarm
\* with the interrupt.
C31_NeverEarly == \A h \in Slots : ~gh[h].early

\* --------------------------------------------------- rejected set_alarm
\* a step of the task inside a set_alarm call, up to and including the one
\* that decides between rejecting and storing
SetAlarmCheckStep ==
    /\ tpc' # tpc \/ nArm' # nArm
    /\ \/ tpc = "idle" /\ nArm' # nArm
       \/ tl.op = "set_alarm" /\ tpc \in {"n_ctlw", "n_cnth", "n_cntl"}

\* the step in which a set_alarm of the task returns false
SetAlarmRejects == lastSet' # lastSet /\ ~lastSet'.ret

C36_NoNullCall == ~fault

\* ------------------------------------------------- accepted bytes go out
\* C33: every byte accepted by write (async or blocking) is eventually
\* written to the data register, under every interleaving of the write with
\* the interrupt handler: the n-th byte pushed into the TX ring buffer
\* becomes the n-th byte written to USART_DATA.
C33_AcceptedWritten ==
    \A n \in 1 .. MaxTx :
        (tx.head >= n) ~> (Len(dataLog) >= n /\ dataLog[n] = n)

\* every byte the bounded run accepts has gone out, in the order accepted;
\* the buffer holds RingCap bytes, so it was refilled while it drained
C33_Witness ==
    /\ unit = "uart"
    /\ tx.head = MaxTx
    /\ dataLog = [k \in 1 .. MaxTx |-> k]
    /\ RingIsEmpty(tx)

\* ------------------------------------------------- start and later polls
\* the step of read_inner / write_inner that enables the channel
DmaEnables == dpc = "st_cfg" /\ dpc' = "idle"

\* the step in which a poll of the Transfer returns
DmaPollReturns == dpc = "poll" /\ dpc' = "idle"

\* C34: starting a transfer clears the channel's signal and discards any
\* registered waker before the channel is enabled, all with the channel
\* interrupt masked; after the completion interrupt every further poll of
\* that Transfer returns Ready(Ok(())) until the next transfer is started on
\* the channel: only a start clears the signal.
C34_StartAndPolls ==
    [][/\ DmaEnables => (~dIrqEn /\ ~dsignal /\ dwaker = NULL /\ chen')
       /\ (dsignal /\ ~dsignal') => (dpc = "idle" /\ dpc' = "st_cfg" /\ ~dIrqEn')
       /\ (dsignal /\ DmaPollReturns) =>
              (lastPoll'.res = "ok" /\ dfut' = "ready" /\ dsignal')]_vars

\* the one transfer started has completed and two polls of its Transfer have
\* returned Ready(Ok(())) one after the other
C34_Witness ==
    /\ unit = "dma"
    /\ nStart = 1
    /\ dsignal
    /\ dpc = "idle"
    /\ lastPoll.n = 2
    /\ lastPoll.prev = "ok"
    /\ lastPoll.res = "ok"

\* --------------------------------------------------- the result of write
\* the steps of a write: leaving `with`, the copy with push_done, the return
WriteLeavesWith == upc = "w_with" /\ upc' # upc
WriteCopies == upc = "w_copy" /\ upc' # upc
WriteReturns == upc = "w_tbeie" /\ upc' # upc

\* the caller's data: its k-th byte is the (head + k)-th byte ever written
CallerByte(r, k) == r.head + k

\* C35: a write on a TX ring buffer with free space returns Ready(Ok(n))
\* with n = min(length of the caller's data, contiguous free run) after
\* appending exactly the first n bytes of the caller's data; a write on a
\* full buffer appends nothing, registers on the TX waker and returns
\* Pending, and is woken when the interrupt removes a byte.
C35_WriteResult ==
    [][/\ WriteLeavesWith =>
            /\ (ul.n = 0) = RingIsFull(tx)
            /\ ul.n = RingPushBuf(tx)
            /\ tx' = tx
            /\ RingIsFull(tx) =>
                  (tx_waker' = WRITER /\ wop'.st = "pending" /\ upc' = "idle")
            /\ ~RingIsFull(tx) => (upc' = "w_copy" /\ tx_waker' = tx_waker)
       /\ WriteCopies =>
            LET n == Min(wop.len, ul.n)
            IN  /\ n >= 1
                /\ ul.n <= RingPushBuf(tx)
                /\ tx'.head = tx.head + n
                /\ tx'.tail = tx.tail
                /\ RingContent(tx') =
                     RingContent(tx) \o [k \in 1 .. n |-> CallerByte(tx, k)]
       /\ WriteReturns =>
            /\ wop'.st = "ready"
            /\ wop'.need = Min(wop.len, ul.n)
            /\ tx' = tx
       /\ (tx'.tail # tx.tail /\ wop.kind = "write" /\ UartWriteParked) =>
            (wWoken' /\ wop' = wop)]_vars

\* a write that found the buffer full and returned Pending has been woken by
\* the interrupt that removed a byte
C35_Witness ==
    /\ unit = "uart"
    /\ upc = "idle"
    /\ wop.kind = "write"
    /\ wop.st = "pending"
    /\ wWoken
    /\ lastIrq.some
    /\ lastIrq.parked = WRITER
    /\ ~RingIsFull(tx)

\* ------------------------------------------------------ waiting for an edge
\* C37: a wait_for_rising_edge future resolves once a rising edge has
\* occurred on its line and stays Pending before that, with no lost wakeup
\* between the edge and the poll: each poll registers the task's waker before
\* reading the line's interrupt-enable bit and returns Ready exactly when
\* that bit is clear.
C37_ResolvesAfterEdge ==
    \A l \in Lines :
        (efut[l] \in {"fresh", "pending"} /\ rose[l]) ~> (efut[l] = "ready")

\* ------------------------------------------------------- SPI prescaler
\* C38: compute_baud_rate(pclk, target) returns a prescaler, without
\* panicking, for every ratio pclk/target from 1 to 256, and the prescaler it
\* returns is the smallest power-of-two divider (2, 4, ..., 256) that is not
\* less than that ratio.
C38_SmallestDivider ==
    LET r == spi.pclk \div spi.target
    IN  (unit = "spi" /\ spi.val # "none" /\ 1 <= r /\ r <= 256)
        => /\ spi.val \in Prescaler
           /\ PrescalerDivider(spi.val) >= r
           /\ \A v \in Prescaler :
                 PrescalerDivider(v) >= r
                     => PrescalerDivider(spi.val) <= PrescalerDivider(v)

====
